---- MODULE Spec2Model ----
(***************************************************************************)
(* feedpulse (rust): the fetch orchestration of fetcher.rs (bounded        *)
(* concurrency, retry with backoff), the identity function and the         *)
(* normalizer of parser.rs, and the transactional storage of storage.rs.   *)
(***************************************************************************)
EXTENDS Integers, Sequences, FiniteSets, TLC

(***************************************************************************)
(* Bounds of the model.                                                    *)
(***************************************************************************)
NumFeeds == 2
MaxRetry == 2
MaxConcurrency == 2
MaxStoreCalls == 2
MaxTime == 2
MaxDuration == 1

(***************************************************************************)
(* u64 / i64 machine arithmetic.  A 64-bit word is four 16-bit limbs,      *)
(* least significant first, so that every intermediate value stays inside  *)
(* the range of the model checker's integers while the word keeps its      *)
(* full width.  An i64 is the same word read in two's complement.          *)
(***************************************************************************)
Limb == 65536
SignLimb == 32768

U64 == [1..4 -> 0..(Limb - 1)]

Word(n) == <<n % Limb, (n \div Limb) % Limb, 0, 0>>

Zero == Word(0)
One == Word(1)

\* wrapping addition and its carry out of bit 63
AddW(x, y) ==
  LET s1 == x[1] + y[1]
      s2 == x[2] + y[2] + (s1 \div Limb)
      s3 == x[3] + y[3] + (s2 \div Limb)
      s4 == x[4] + y[4] + (s3 \div Limb)
  IN  [val |-> <<s1 % Limb, s2 % Limb, s3 % Limb, s4 % Limb>>,
       ovf |-> s4 >= Limb]

\* x - 1 for x > 0
Pred(x) ==
  IF x[1] > 0 THEN <<x[1] - 1, x[2], x[3], x[4]>>
  ELSE IF x[2] > 0 THEN <<Limb - 1, x[2] - 1, x[3], x[4]>>
  ELSE IF x[3] > 0 THEN <<Limb - 1, Limb - 1, x[3] - 1, x[4]>>
  ELSE <<Limb - 1, Limb - 1, Limb - 1, x[4] - 1>>

\* x / 2, rounded down
Half(x) ==
  <<(x[1] \div 2) + (x[2] % 2) * SignLimb,
    (x[2] \div 2) + (x[3] % 2) * SignLimb,
    (x[3] \div 2) + (x[4] % 2) * SignLimb,
    x[4] \div 2>>

\* u64 multiplication: the product modulo 2^64 and whether the exact
\* product needs more than 64 bits
RECURSIVE MulW(_, _)
MulW(a, b) ==
  IF b = Zero THEN [val |-> Zero, ovf |-> FALSE]
  ELSE LET r == MulW(a, Half(b))
           d == AddW(r.val, r.val)
           s == IF b[1] % 2 = 1 THEN AddW(d.val, a) ELSE [val |-> d.val, ovf |-> FALSE]
       IN  [val |-> s.val, ovf |-> r.ovf \/ d.ovf \/ s.ovf]

\* 2_u64.pow(e)
RECURSIVE PowTwo(_)
PowTwo(e) ==
  IF e = 0 THEN [val |-> One, ovf |-> FALSE]
  ELSE LET r == PowTwo(e - 1)
           d == AddW(r.val, r.val)
       IN  [val |-> d.val, ovf |-> r.ovf \/ d.ovf]

\* x / 10, rounded down (long division from the most significant limb)
DivTen(x) ==
  LET q4 == x[4] \div 10
      r4 == x[4] % 10
      q3 == (r4 * Limb + x[3]) \div 10
      r3 == (r4 * Limb + x[3]) % 10
      q2 == (r3 * Limb + x[2]) \div 10
      r2 == (r3 * Limb + x[2]) % 10
      q1 == (r2 * Limb + x[1]) \div 10
  IN  <<q1, q2, q3, q4>>

\* unsigned comparison
LessU(x, y) ==
  \/ x[4] < y[4]
  \/ x[4] = y[4] /\ x[3] < y[3]
  \/ x[4] = y[4] /\ x[3] = y[3] /\ x[2] < y[2]
  \/ x[4] = y[4] /\ x[3] = y[3] /\ x[2] = y[2] /\ x[1] < y[1]

LeqU(x, y) == x = y \/ LessU(x, y)

\* the sign of the word read as i64
Negative(x) == x[4] >= SignLimb

\* i64 addition: the wrapped sum and whether the exact sum leaves the i64 range
AddI(x, y) ==
  LET s == AddW(x, y).val
  IN  [val |-> s,
       ovf |-> Negative(x) = Negative(y) /\ Negative(s) # Negative(x)]


(***************************************************************************)
(* Strings are sequences of characters, so that concatenation, and the     *)
(* bytes fed to the hash, are what they are in the program.                *)
(***************************************************************************)
FeedNames == << <<"a">>, <<"a", "b">>, <<"b">>, <<"c">> >>

Feeds == 1..NumFeeds

FeedName(f) == FeedNames[f]

\* Option<T>: None is the empty sequence, Some(x) the sequence <<x>>
None == <<>>
Some(x) == <<x>>

(***************************************************************************)
(* JSON values of a response body, as far as the normalizer looks at them. *)
(***************************************************************************)
JStr(s) == [t |-> "str", s |-> s]
JNum(n) == [t |-> "num", n |-> n]
JNull == [t |-> "null"]

\* serde_json Value::get(key) on an object: Some(value) or None
Get(obj, key) == IF key \in DOMAIN obj THEN Some(obj[key]) ELSE None

\* Option::or_else
OrElse(a, b) == IF a # None THEN a ELSE b

\* Option<&Value>::and_then(|v| v.as_str())
AsStr(opt) ==
  IF opt # None /\ "t" \in DOMAIN opt[1] /\ opt[1].t = "str" THEN Some(opt[1].s)
  ELSE None

\* Option<&Value>::and_then(|v| v.as_array())
AsArray(opt) ==
  IF opt # None /\ "json" \in DOMAIN opt[1] /\ opt[1].json = "array"
  THEN Some(opt[1].items)
  ELSE None

\* Value::as_i64 of an array element
AsI64(v) == IF "t" \in DOMAIN v /\ v.t = "num" THEN Some(v.n) ELSE None

\* str::contains
Contains(s, pat) ==
  \E i \in 0..(Len(s) - Len(pat)) : SubSeq(s, i + 1, i + Len(pat)) = pat

\* the text `{}` formats an integer to
RECURSIVE Decimal(_)
Decimal(n) ==
  IF n < 0 THEN <<"-">> \o Decimal(-n)
  ELSE IF n < 10 THEN <<<<"0", "1", "2", "3", "4", "5", "6", "7", "8", "9">>[n + 1]>>
  ELSE Decimal(n \div 10) \o Decimal(n % 10)

(***************************************************************************)
(* Timestamps                                                              *)
(***************************************************************************)
\* Utc::now(): the instants the clock can show, within one minute of one
\* day; the clock is not monotonic
Instants ==
  << [secs |-> 0, nanos |-> 0],
     [secs |-> 0, nanos |-> 500000000],
     [secs |-> 0, nanos |-> 500001000],
     [secs |-> 1, nanos |-> 0] >>

Utc_now(clock) == Instants[clock]

\* the decimal digits of n in a field of the given width
RECURSIVE Digits(_, _)
Digits(n, width) ==
  IF width = 0 THEN <<>>
  ELSE Append(Digits(n \div 10, width - 1),
              <<"0", "1", "2", "3", "4", "5", "6", "7", "8", "9">>[(n % 10) + 1])

\* DateTime<Utc>::to_rfc3339(): SecondsFormat::AutoSi prints no fraction,
\* or 3, 6 or 9 digits of it, whichever is the shortest exact one.  The text
\* is modelled from the seconds on, the date, hour and minute before them
\* being the same for all Instants.
to_rfc3339(at) ==
  LET fraction ==
        IF at.nanos = 0 THEN <<>>
        ELSE IF at.nanos % 1000000 = 0 THEN <<".">> \o Digits(at.nanos \div 1000000, 3)
        ELSE IF at.nanos % 1000 = 0 THEN <<".">> \o Digits(at.nanos \div 1000, 6)
        ELSE <<".">> \o Digits(at.nanos, 9)
  IN  Digits(at.secs, 2) \o fraction \o <<"+", "0", "0", ":", "0", "0">>

(***************************************************************************)
(* parser.rs                                                               *)
(***************************************************************************)
\* SHA-256 is modelled as an ideal hash: the digest stands for the byte
\* sequence that was fed to the hasher, so two digests are equal exactly
\* when the hashed byte sequences are equal.
Sha256Hex(bytes) == [sha256 |-> bytes]

\* the bytes the two hasher.update calls feed to the hasher, in order
HashInput(source_name, url) == source_name \o url

generate_id(source_name, url) == Sha256Hex(HashInput(source_name, url))

\* FeedItem with the id computed from the title instead of the URL
FeedItemIdFromTitle(source_name, title, url, raw) ==
  [id |-> generate_id(source_name, title),
   title |-> title,
   url |-> url,
   source |-> source_name,
   timestamp |-> None,
   tags |-> <<>>,
   raw_data |-> Some(raw)]

FeedItem(source_name, title, url, raw) ==
  [id |-> generate_id(source_name, url),
   title |-> title,
   url |-> url,
   source |-> source_name,
   timestamp |-> None,
   tags |-> <<>>,
   raw_data |-> Some(raw)]

\* one iteration of the loop of parse_generic_json: the item pushed, or
\* nothing when no URL field is found
GenericItem(item, source_name) ==
  LET title == AsStr(OrElse(Get(item, "title"),
                     OrElse(Get(item, "name"), Get(item, "headline"))))
      url == AsStr(OrElse(Get(item, "url"),
                   OrElse(Get(item, "link"), Get(item, "href"))))
  IN  IF url # None
      THEN <<FeedItem(source_name,
                      IF title # None THEN title[1] ELSE <<"Untitled">>,
                      url[1], item)>>
      ELSE <<>>

RECURSIVE GenericItems(_, _)
GenericItems(arr, source_name) ==
  IF arr = <<>> THEN <<>>
  ELSE GenericItem(Head(arr), source_name) \o GenericItems(Tail(arr), source_name)

\* A body is "malformed" (not JSON), a JSON value that is no array
\* ("object"), or a JSON array given as the sequence of its elements.
Malformed == [json |-> "malformed"]
NotArray == [json |-> "object"]
JArray(items) == [json |-> "array", items |-> items]

Ok(v) == [ok |-> TRUE, v |-> v]
Err(e) == [ok |-> FALSE, e |-> e]

parse_generic_json(json, source_name) ==
  IF json.json # "array" THEN Err("expected JSON array")
  ELSE Ok(GenericItems(json.items, source_name))

\* a JSON object at the top of a body, given as the record of its members
JObject(fields) == [json |-> "object", fields |-> fields]

\* Value::get(key) on the body: a member of an object, None on anything else
BodyGet(body, key) ==
  IF body.json = "object" /\ "fields" \in DOMAIN body /\ key \in DOMAIN body.fields
  THEN Some(body.fields[key])
  ELSE None

\* a FeedItem with the timestamp and the tags the source gave
FeedItemOf(source_name, title, url, timestamp, tags, raw) ==
  [id |-> generate_id(source_name, url),
   title |-> title,
   url |-> url,
   source |-> source_name,
   timestamp |-> timestamp,
   tags |-> tags,
   raw_data |-> Some(raw)]

\* arr.iter().filter_map(|v| v.as_str()...).collect() under
\* .and_then(|v| v.as_array()) ... .unwrap_or_default()
RECURSIVE StrsOf(_)
StrsOf(arr) ==
  IF arr = <<>> THEN <<>>
  ELSE (IF AsStr(Some(Head(arr))) # None THEN <<AsStr(Some(Head(arr)))[1]>> ELSE <<>>)
         \o StrsOf(Tail(arr))

TagsOf(opt) == IF AsArray(opt) # None THEN StrsOf(AsArray(opt)[1]) ELSE <<>>

\* the loop of parse_hackernews: an element that is no integer is skipped
RECURSIVE HackerNewsItems(_, _)
HackerNewsItems(arr, source_name) ==
  IF arr = <<>> THEN <<>>
  ELSE (IF AsI64(Head(arr)) # None
        THEN <<FeedItemOf(source_name,
                          <<"H", "N", " ", "S", "t", "o", "r", "y", " ">>
                            \o Decimal(AsI64(Head(arr))[1]),
                          <<"h", "t", "t", "p", "s", ":", "/", "/", "n", "e", "w", "s", ".", "y", "c", "o", "m", "b", "i", "n", "a", "t", "o", "r", ".", "c", "o", "m", "/", "i", "t", "e", "m", "?", "i", "d", "=">>
                            \o Decimal(AsI64(Head(arr))[1]),
                          None, <<>>, Head(arr))>>
        ELSE <<>>)
         \o HackerNewsItems(Tail(arr), source_name)

parse_hackernews(json, source_name) ==
  IF json.json # "array" THEN Err("HackerNews: expected array of IDs")
  ELSE Ok(HackerNewsItems(json.items, source_name))

parse_github_item(item, source_name) ==
  LET title == AsStr(OrElse(Get(item, "full_name"), Get(item, "name")))
      url == AsStr(Get(item, "html_url"))
      timestamp == AsStr(OrElse(Get(item, "updated_at"), Get(item, "created_at")))
      tags == TagsOf(Get(item, "topics"))
  IN  IF title = None THEN Err("missing 'full_name' or 'name'")
      ELSE IF url = None THEN Err("missing 'html_url'")
      ELSE Ok(FeedItemOf(source_name, title[1], url[1], timestamp, tags, item))

parse_lobsters_item(item, source_name) ==
  LET title == AsStr(Get(item, "title"))
      url == AsStr(OrElse(Get(item, "url"), Get(item, "comments_url")))
      timestamp == AsStr(Get(item, "created_at"))
      tags == TagsOf(Get(item, "tags"))
  IN  IF title = None THEN Err("missing 'title'")
      ELSE IF url = None THEN Err("missing 'url' or 'comments_url'")
      ELSE Ok(FeedItemOf(source_name, title[1], url[1], timestamp, tags, item))

\* parse_reddit_item.  created_utc is within the minute of Instants, where
\* DateTime::from_timestamp succeeds.
parse_reddit_item(data, source_name) ==
  LET title == AsStr(Get(data, "title"))
      url == AsStr(Get(data, "url"))
      created == IF Get(data, "created_utc") # None
                 THEN AsI64(Get(data, "created_utc")[1]) ELSE None
      timestamp == IF created # None
                   THEN Some(to_rfc3339([secs |-> created[1], nanos |-> 0]))
                   ELSE None
      flair == AsStr(Get(data, "link_flair_text"))
      tags == IF flair # None /\ flair[1] # <<>> THEN <<flair[1]>> ELSE <<>>
  IN  IF title = None THEN Err("missing 'title'")
      ELSE IF url = None THEN Err("missing 'url'")
      ELSE Ok(FeedItemOf(source_name, title[1], url[1], timestamp, tags, data))

\* GithubItems ending the loop at the first item that does not parse
RECURSIVE ItemsUntilError(_, _)
ItemsUntilError(arr, source_name) ==
  IF arr = <<>> \/ ~parse_github_item(Head(arr), source_name).ok THEN <<>>
  ELSE <<parse_github_item(Head(arr), source_name).v>>
         \o ItemsUntilError(Tail(arr), source_name)

\* the loop of parse_github: the items that parse, in order; an item that
\* does not is skipped with a warning
RECURSIVE GithubItems(_, _)
GithubItems(arr, source_name) ==
  IF arr = <<>> THEN <<>>
  ELSE (IF parse_github_item(Head(arr), source_name).ok
        THEN <<parse_github_item(Head(arr), source_name).v>> ELSE <<>>)
         \o GithubItems(Tail(arr), source_name)

parse_github(json, source_name) ==
  LET items_array == AsArray(BodyGet(json, "items"))
  IN  IF items_array = None THEN Err("GitHub: missing 'items' array")
      ELSE Ok(GithubItems(items_array[1], source_name))

\* the loop of parse_reddit: a child without 'data' is skipped as well
RECURSIVE RedditItems(_, _)
RedditItems(children, source_name) ==
  IF children = <<>> THEN <<>>
  ELSE LET data == Get(Head(children), "data")
       IN  (IF data # None /\ parse_reddit_item(data[1], source_name).ok
            THEN <<parse_reddit_item(data[1], source_name).v>> ELSE <<>>)
             \o RedditItems(Tail(children), source_name)

parse_reddit(json, source_name) ==
  LET data == BodyGet(json, "data")
      children == IF data # None THEN AsArray(Get(data[1], "children")) ELSE None
  IN  IF children = None THEN Err("Reddit: missing 'data.children' array")
      ELSE Ok(RedditItems(children[1], source_name))

\* the loop of parse_lobsters
RECURSIVE LobstersItems(_, _)
LobstersItems(arr, source_name) ==
  IF arr = <<>> THEN <<>>
  ELSE (IF parse_lobsters_item(Head(arr), source_name).ok
        THEN <<parse_lobsters_item(Head(arr), source_name).v>> ELSE <<>>)
         \o LobstersItems(Tail(arr), source_name)

parse_lobsters(json, source_name) ==
  IF json.json # "array" THEN Err("Lobsters: expected array")
  ELSE Ok(LobstersItems(json.items, source_name))

HackerNews == <<"H", "a", "c", "k", "e", "r", "N", "e", "w", "s">>
HN == <<"H", "N">>
GitHub == <<"G", "i", "t", "H", "u", "b">>
Reddit == <<"R", "e", "d", "d", "i", "t">>
Lobsters == <<"L", "o", "b", "s", "t", "e", "r", "s">>

\* the parser is chosen by the name of the source
parse_json_feed(source_name, body) ==
  IF body.json = "malformed" THEN Err("malformed JSON")
  ELSE IF Contains(source_name, HackerNews) \/ Contains(source_name, HN)
  THEN parse_hackernews(body, source_name)
  ELSE IF Contains(source_name, GitHub) THEN parse_github(body, source_name)
  ELSE IF Contains(source_name, Reddit) THEN parse_reddit(body, source_name)
  ELSE IF Contains(source_name, Lobsters) THEN parse_lobsters(body, source_name)
  ELSE parse_generic_json(body, source_name)

parse_feed(source_name, body) == parse_json_feed(source_name, body)

Item1 == [title |-> JStr(<<"t">>), url |-> JStr(<<"c">>)]
Item2 == [title |-> JStr(<<"u">>), url |-> JStr(<<"c">>)]
Item3 == [name |-> JStr(<<"t">>), link |-> JStr(<<"b", "c">>)]
Item4 == [title |-> JStr(<<"t">>)]

Bodies == {JArray(<<Item1>>), JArray(<<Item3>>), JArray(<<Item4, Item1, Item2>>)}

\* the bodies the HTTP attempts of the fetch model return
FetchedBodies == {Malformed, NotArray, JArray(<<Item4, Item3, Item1>>)}


(***************************************************************************)
(* models.rs                                                               *)
(***************************************************************************)
DefaultRetryBaseDelay == 500

\* An error description: the text, the status code it names (0 when it
\* names none), the "parse error: " prefix and the " after N retries"
\* suffix when present.
Msg(text, code) == [text |-> text, code |-> code, parse |-> FALSE, after |-> None]

AfterRetries(m, n) == [m EXCEPT !.after = Some(n)]

ParseErrorMsg(e) == [text |-> e, code |-> 0, parse |-> TRUE, after |-> None]

NoError == Msg("", 0)

FeedResult(source_name, status, items, duration_ms, error_message) ==
  [source_name |-> source_name,
   status |-> status,
   items |-> items,
   duration_ms |-> duration_ms,
   error_message |-> error_message]

(***************************************************************************)
(* The configuration of a run.  Validation (config.rs) accepts             *)
(* 1 <= max_concurrency <= 50, any retry_max and any retry_base_delay_ms   *)
(* greater than 0.                                                         *)
(***************************************************************************)
\* validate_settings, as far as it looks at the settings of the model:
\* retry_max is not looked at
validate_settings(s) ==
  /\ ~(s.max_concurrency < 1 \/ s.max_concurrency > 50)
  /\ s.retry_base_delay_ms # Zero

TwoTo63 == <<0, 0, 0, SignLimb>>

BaseDelays == {Word(DefaultRetryBaseDelay), TwoTo63}

SettingsSet ==
  [max_concurrency : 1..MaxConcurrency,
   retry_max : 0..MaxRetry,
   retry_base_delay_ms : BaseDelays]

(***************************************************************************)
(* What one HTTP attempt can observe.                                      *)
(***************************************************************************)
TransportErrors == {"timeout", "connect", "other"}

Statuses == {200, 304, 403, 404, 429, 500}

Unreadable == [json |-> "unreadable"]

Transport(e) == [kind |-> e, status |-> 0, body |-> Unreadable]
Http(code, body) == [kind |-> "http", status |-> code, body |-> body]

Responses ==
  {Transport(e) : e \in TransportErrors}
    \cup {Http(c, Unreadable) : c \in Statuses}
    \cup {Http(200, b) : b \in FetchedBodies}

is_success(status) == status >= 200 /\ status <= 299
is_client_error(status) == status >= 400 /\ status <= 499
is_server_error(status) == status >= 500 /\ status <= 599


VARIABLES
  settings,        \* the Settings of the run
  overflow_checks, \* the build profile: arithmetic overflow panics (debug) or wraps (release)
  spawned,         \* number of tasks fetch_all_feeds has spawned
  pc,              \* where each task is
  attempt,         \* the loop variable of fetch_with_retry
  last_error,      \* the local last_error of fetch_with_retry
  tries,           \* HTTP attempts made so far by the task
  waits,           \* backoff sleeps started so far by the task
  slept,           \* Some(delay, jitter, actual_delay) while the task sleeps in backoff
  last_resp,       \* Some(response) of the task's latest HTTP attempt
  result,          \* Some(FeedResult) once the task has produced it
  permits,         \* free permits of the semaphore
  joined,          \* number of task handles fetch_all_feeds has awaited
  results,         \* the Vec<FeedResult> fetch_all_feeds builds
  feed_items,      \* the rows of table feed_items
  fetch_log,       \* the rows of table fetch_log, in rowid order
  calls,           \* number of store_results calls made
  last_call,       \* Some(record) of the latest store_results call: whether it
                   \* returned Ok and, if so, its arguments and the counts returned;
                   \* ops is the number of operations it completed, fault the
                   \* operation the environment made fail (0: none), error
                   \* the error returned
  db_file,         \* what is at settings.database_path: "missing", "empty" (0 bytes),
                   \* "database" (holds the two tables) or "garbage"
  process,         \* where handle_fetch is: "fetching", "storing", or how the
                   \* process ended: "exited", "failed", "killed"
  conns,           \* per connection that commits concurrently: its transaction
  lock,            \* the connection that holds the write lock of the database, or 0
  parse_in,        \* the arguments of a parse_feed call
  parse_out        \* Some(what the call returned)

fetchVars ==
  <<settings, overflow_checks, spawned, pc, attempt, last_error, tries, waits,
    slept, last_resp, result, permits, joined, results>>

storeVars == <<feed_items, fetch_log, calls, last_call>>

runVars == <<db_file, process>>

connVars == <<conns, lock>>

parseVars == <<parse_in, parse_out>>

vars == <<fetchVars, storeVars, runVars, connVars, parseVars>>


(***************************************************************************)
(* fetcher.rs: fetch_with_retry                                            *)
(***************************************************************************)
\* the delay computed at the top of the loop for attempt > 0, and whether
\* the power or the product overflowed u64
BackoffDelay(base_delay, att) ==
  LET pow == PowTwo(att - 1)
      mul == MulW(base_delay, pow.val)
  IN  [delay |-> mul.val, ovf |-> pow.ovf \/ mul.ovf]

\* (delay / 10).max(1)
JitterRange(delay) == IF DivTen(delay) = Zero THEN One ELSE DivTen(delay)

\* rand::random::<u64>() % jitter_range: some value below jitter_range; the
\* model draws the least and the greatest
Jitters(jitter_range) == {Zero, Pred(jitter_range)}

\* (delay as i64 + jitter).max(0) as u64, and whether the i64 sum overflowed
ActualDelay(delay, jitter) ==
  LET sum == AddI(delay, jitter)
  IN  [val |-> IF Negative(sum.val) THEN Zero ELSE sum.val, ovf |-> sum.ovf]

\* Err(e) of request.send().await: the network error sets last_error and
\* the loop continues
OnTransportError(kind) ==
  [act |-> "retry",
   err |-> IF kind = "timeout" THEN Msg("timeout", 0)
           ELSE IF kind = "connect" THEN Msg("connection failed", 0)
           ELSE Msg("network error", 0)]

\* OnSuccessStatus without the return: a read body continues the loop
OnSuccessStatusContinues(body) ==
  IF body # Unreadable
  THEN [act |-> "retry", err |-> NoError]
  ELSE [act |-> "retry", err |-> Msg("failed to read response body", 0)]

\* status.is_success(): response.text().await returns the body, or fails
OnSuccessStatus(body) ==
  IF body # Unreadable
  THEN [act |-> "ok", err |-> NoError]
  ELSE [act |-> "retry", err |-> Msg("failed to read response body", 0)]

\* OnClientError with 404 continuing the loop like 429
OnClientErrorRetries404(status) ==
  IF status = 404 \/ status = 429 THEN [act |-> "retry", err |-> Msg("HTTP", status)]
  ELSE [act |-> "fail", err |-> Msg("HTTP", status)]

\* the branches for 404 and for the other 4xx statuses
OnClientError(status) ==
  IF status = 404 THEN [act |-> "fail", err |-> Msg("HTTP", 404)]
  ELSE IF status = 429 THEN [act |-> "retry", err |-> Msg("HTTP", 429)]
  ELSE [act |-> "fail", err |-> Msg("HTTP", status)]

\* Classify with the unknown statuses (1xx, 3xx) continuing the loop like 5xx
ClassifyRetriesUnknown(resp) ==
  IF resp.kind # "http" THEN OnTransportError(resp.kind)
  ELSE IF is_success(resp.status) THEN OnSuccessStatus(resp.body)
  ELSE IF resp.status = 404 \/ is_client_error(resp.status)
  THEN OnClientError(resp.status)
  ELSE [act |-> "retry", err |-> Msg("HTTP", resp.status)]

\* the match on request.send().await: "ok" returns the body, "retry" sets
\* last_error and continues the loop, "fail" returns the error at once
Classify(resp) ==
  IF resp.kind # "http" THEN OnTransportError(resp.kind)
  ELSE IF is_success(resp.status) THEN OnSuccessStatus(resp.body)
  ELSE IF resp.status = 404 \/ is_client_error(resp.status)
  THEN OnClientError(resp.status)
  ELSE IF is_server_error(resp.status)
  THEN [act |-> "retry", err |-> Msg("HTTP", resp.status)]
  ELSE [act |-> "fail", err |-> Msg("HTTP", resp.status)]

\* for attempt in 0..=retry_max: whether the loop has another iteration
HasNextAttempt(att, retry_max) == att + 1 <= retry_max

\* Exhausted without the " after N retries" suffix
ExhaustedPlain(err, retry_max) == err

\* the error returned when the loop ends
Exhausted(err, retry_max) == AfterRetries(err, retry_max)

(***************************************************************************)
(* fetcher.rs: fetch_single_feed and the spawned task                      *)
(***************************************************************************)
\* ErrorResult with error_message left None
ErrorResultNoMessage(f, d, e) == FeedResult(FeedName(f), "error", <<>>, d, None)

ErrorResult(f, d, e) == FeedResult(FeedName(f), "error", <<>>, d, Some(e))

SuccessResult(f, d, items) == FeedResult(FeedName(f), "success", items, d, None)

\* Normalized with a parse failure reported as a success without items
NormalizedSwallowsError(f, d, body) ==
  LET r == parse_feed(FeedName(f), body)
  IN  IF r.ok THEN SuccessResult(f, d, r.v) ELSE SuccessResult(f, d, <<>>)

\* what fetch_single_feed makes of a body fetch_with_retry returned
Normalized(f, d, body) ==
  LET r == parse_feed(FeedName(f), body)
  IN  IF r.ok THEN SuccessResult(f, d, r.v) ELSE ErrorResult(f, d, ParseErrorMsg(r.e))

\* Finish with the task staying where it is in fetch_single_feed
FinishKeepsRunning(t, res) ==
  /\ result' = [result EXCEPT ![t] = Some(res)]
  /\ pc' = pc
  /\ attempt' = [attempt EXCEPT ![t] = 0]
  /\ last_error' = [last_error EXCEPT ![t] = NoError]
  /\ permits' = permits

\* the task returns its FeedResult; its permit is dropped
Finish(t, res) ==
  /\ result' = [result EXCEPT ![t] = Some(res)]
  /\ pc' = [pc EXCEPT ![t] = "done"]
  /\ attempt' = [attempt EXCEPT ![t] = 0]
  /\ last_error' = [last_error EXCEPT ![t] = NoError]
  /\ permits' = permits + 1

InitFetch ==
  /\ settings \in SettingsSet
  /\ overflow_checks \in BOOLEAN
  /\ spawned = 0
  /\ pc = [t \in Feeds |-> "unspawned"]
  /\ attempt = [t \in Feeds |-> 0]
  /\ last_error = [t \in Feeds |-> NoError]
  /\ tries = [t \in Feeds |-> 0]
  /\ waits = [t \in Feeds |-> 0]
  /\ slept = [t \in Feeds |-> None]
  /\ last_resp = [t \in Feeds |-> None]
  /\ result = [t \in Feeds |-> None]
  /\ permits = settings.max_concurrency
  /\ joined = 0
  /\ results = <<>>

\* tokio::spawn in the loop over config.feeds
Spawn ==
  /\ spawned < NumFeeds
  /\ spawned' = spawned + 1
  /\ pc' = [pc EXCEPT ![spawned + 1] = "acquire"]
  /\ UNCHANGED <<settings, overflow_checks, attempt, last_error, tries, waits,
                 slept, last_resp, result, permits, joined, results>>
  /\ UNCHANGED <<storeVars, runVars, connVars, parseVars>>

\* Acquire without waiting for a free permit
AcquireUnguarded(t) ==
  /\ pc[t] = "acquire"
  /\ permits' = permits - 1
  /\ pc' = [pc EXCEPT ![t] = "client"]
  /\ UNCHANGED <<settings, overflow_checks, spawned, attempt, last_error, tries,
                 waits, slept, last_resp, result, joined, results>>
  /\ UNCHANGED <<storeVars, runVars, connVars, parseVars>>

\* sem.acquire().await completes
Acquire(t) ==
  /\ pc[t] = "acquire"
  /\ permits > 0
  /\ permits' = permits - 1
  /\ pc' = [pc EXCEPT ![t] = "client"]
  /\ UNCHANGED <<settings, overflow_checks, spawned, attempt, last_error, tries,
                 waits, slept, last_resp, result, joined, results>>
  /\ UNCHANGED <<storeVars, runVars, connVars, parseVars>>

\* BuildClient with the loop sleeping the base delay before the first attempt too
BuildClientSleepsFirst(t) ==
  /\ pc[t] = "client"
  /\ \/ /\ pc' = [pc EXCEPT ![t] = "sleeping"]
        /\ waits' = [waits EXCEPT ![t] = @ + 1]
        /\ slept' = [slept EXCEPT ![t] =
                       Some([delay |-> settings.retry_base_delay_ms, jitter |-> Zero,
                             actual |-> settings.retry_base_delay_ms])]
        /\ UNCHANGED <<attempt, last_error, result, permits>>
     \/ /\ \E d \in 0..MaxDuration :
             Finish(t, ErrorResult(t, d, Msg("failed to create HTTP client", 0)))
        /\ UNCHANGED <<waits, slept>>
  /\ UNCHANGED <<settings, overflow_checks, spawned, tries, last_resp, joined, results>>
  /\ UNCHANGED <<storeVars, runVars, connVars, parseVars>>

\* reqwest::Client::builder()...build(): on failure fetch_with_retry returns
\* the error before any attempt
BuildClient(t) ==
  /\ pc[t] = "client"
  /\ \/ /\ pc' = [pc EXCEPT ![t] = "send"]
        /\ UNCHANGED <<attempt, last_error, result, permits>>
     \/ \E d \in 0..MaxDuration :
          Finish(t, ErrorResult(t, d, Msg("failed to create HTTP client", 0)))
  /\ UNCHANGED <<settings, overflow_checks, spawned, tries, waits, slept,
                 last_resp, joined, results>>
  /\ UNCHANGED <<storeVars, runVars, connVars, parseVars>>

\* Backoff with the panicking task keeping its permit
BackoffLeaksPermit(t) ==
  /\ pc[t] = "backoff"
  /\ LET b == BackoffDelay(settings.retry_base_delay_ms, attempt[t])
     IN  \E jitter \in Jitters(JitterRange(b.delay)) :
           LET a == ActualDelay(b.delay, jitter)
           IN  IF overflow_checks /\ (b.ovf \/ a.ovf)
               THEN /\ pc' = [pc EXCEPT ![t] = "panicked"]
                    /\ UNCHANGED <<permits, waits, slept>>
               ELSE /\ pc' = [pc EXCEPT ![t] = "sleeping"]
                    /\ waits' = [waits EXCEPT ![t] = @ + 1]
                    /\ slept' = [slept EXCEPT ![t] =
                                   Some([delay |-> b.delay, jitter |-> jitter,
                                         actual |-> a.val])]
                    /\ UNCHANGED permits
  /\ UNCHANGED <<settings, overflow_checks, spawned, attempt, last_error, tries,
                 last_resp, result, joined, results>>
  /\ UNCHANGED <<storeVars, runVars, connVars, parseVars>>

\* the top of the loop when attempt > 0: the delay is computed and the sleep
\* starts, or an arithmetic overflow panics the task (its permit is dropped
\* by the unwinding)
Backoff(t) ==
  /\ pc[t] = "backoff"
  /\ LET b == BackoffDelay(settings.retry_base_delay_ms, attempt[t])
     IN  \E jitter \in Jitters(JitterRange(b.delay)) :
           LET a == ActualDelay(b.delay, jitter)
           IN  IF overflow_checks /\ (b.ovf \/ a.ovf)
               THEN /\ pc' = [pc EXCEPT ![t] = "panicked"]
                    /\ permits' = permits + 1
                    /\ UNCHANGED <<waits, slept>>
               ELSE /\ pc' = [pc EXCEPT ![t] = "sleeping"]
                    /\ waits' = [waits EXCEPT ![t] = @ + 1]
                    /\ slept' = [slept EXCEPT ![t] =
                                   Some([delay |-> b.delay, jitter |-> jitter,
                                         actual |-> a.val])]
                    /\ UNCHANGED permits
  /\ UNCHANGED <<settings, overflow_checks, spawned, attempt, last_error, tries,
                 last_resp, result, joined, results>>
  /\ UNCHANGED <<storeVars, runVars, connVars, parseVars>>

\* sleep(Duration::from_millis(actual_delay)).await completes
Wake(t) ==
  /\ pc[t] = "sleeping"
  /\ pc' = [pc EXCEPT ![t] = "send"]
  /\ slept' = [slept EXCEPT ![t] = None]
  /\ UNCHANGED <<settings, overflow_checks, spawned, attempt, last_error, tries,
                 waits, last_resp, result, permits, joined, results>>
  /\ UNCHANGED <<storeVars, runVars, connVars, parseVars>>

\* one HTTP attempt: request.send().await and, on a 2xx status,
\* response.text().await, then the match on what came back
Send(t) ==
  /\ pc[t] = "send"
  /\ \E resp \in Responses :
       LET c == Classify(resp)
       IN  /\ tries' = [tries EXCEPT ![t] = @ + 1]
           /\ last_resp' = [last_resp EXCEPT ![t] = Some(resp)]
           /\ IF c.act = "ok"
              THEN /\ pc' = [pc EXCEPT ![t] = "parse"]
                   /\ UNCHANGED <<attempt, last_error, result, permits>>
              ELSE IF c.act = "retry" /\ HasNextAttempt(attempt[t], settings.retry_max)
              THEN /\ pc' = [pc EXCEPT ![t] = "backoff"]
                   /\ attempt' = [attempt EXCEPT ![t] = @ + 1]
                   /\ last_error' = [last_error EXCEPT ![t] = c.err]
                   /\ UNCHANGED <<result, permits>>
              ELSE \E d \in 0..MaxDuration :
                     Finish(t, ErrorResult(t, d,
                       IF c.act = "retry" THEN Exhausted(c.err, settings.retry_max)
                       ELSE c.err))
  /\ UNCHANGED <<settings, overflow_checks, spawned, waits, slept, joined, results>>
  /\ UNCHANGED <<storeVars, runVars, connVars, parseVars>>

\* parser::parse_feed on the body and the FeedResult built from its outcome
Normalize(t) ==
  /\ pc[t] = "parse"
  /\ \E d \in 0..MaxDuration : Finish(t, Normalized(t, d, last_resp[t][1].body))
  /\ UNCHANGED <<settings, overflow_checks, spawned, tries, waits, slept,
                 last_resp, joined, results>>
  /\ UNCHANGED <<storeVars, runVars, connVars, parseVars>>

\* Join with the result put in front of those collected so far
JoinPrepends ==
  /\ spawned = NumFeeds
  /\ joined < NumFeeds
  /\ pc[joined + 1] \in {"done", "panicked"}
  /\ results' = IF pc[joined + 1] = "done"
                THEN <<result[joined + 1][1]>> \o results
                ELSE results
  /\ joined' = joined + 1
  /\ UNCHANGED <<settings, overflow_checks, spawned, pc, attempt, last_error,
                 tries, waits, slept, last_resp, result, permits>>
  /\ UNCHANGED <<storeVars, runVars, connVars, parseVars>>

\* task.await on the next handle, in spawn order: a finished task's result
\* is pushed, a panicked task's JoinError is printed and nothing is pushed
Join ==
  /\ spawned = NumFeeds
  /\ joined < NumFeeds
  /\ pc[joined + 1] \in {"done", "panicked"}
  /\ results' = IF pc[joined + 1] = "done"
                THEN Append(results, result[joined + 1][1])
                ELSE results
  /\ joined' = joined + 1
  /\ UNCHANGED <<settings, overflow_checks, spawned, pc, attempt, last_error,
                 tries, waits, slept, last_resp, result, permits>>
  /\ UNCHANGED <<storeVars, runVars, connVars, parseVars>>

\* fetch_all_feeds has returned `results`
Returned == joined = NumFeeds

(***************************************************************************)
(* storage.rs                                                              *)
(* Table feed_items is the set of its rows, fetch_log the sequence of its  *)
(* rows in rowid order.  The PRIMARY KEY of feed_items is enforced by the  *)
(* INSERT statement, as the database enforces it.                          *)
(***************************************************************************)
\* serde_json::to_string(&item.tags): the JSON text of an array of strings
TagsJson(tags) == JArray([i \in DOMAIN tags |-> JStr(tags[i])])

\* SELECT 1 FROM feed_items WHERE id = ?1
SqlExists(items, id) == \E row \in items : row.id = id

\* SqlInsert on a table without the primary key
SqlInsertUnkeyed(items, item, tags_json, now) ==
  Ok(items \cup {[id |-> item.id, title |-> item.title, url |-> item.url,
                  source |-> item.source, timestamp |-> item.timestamp,
                  tags |-> tags_json, raw_data |-> item.raw_data,
                  created_at |-> now]})

\* INSERT INTO feed_items (...): fails on a row with the same primary key
SqlInsert(items, item, tags_json, now) ==
  IF \E row \in items : row.id = item.id
  THEN Err("UNIQUE constraint failed: feed_items.id")
  ELSE Ok(items \cup {[id |-> item.id, title |-> item.title, url |-> item.url,
                       source |-> item.source, timestamp |-> item.timestamp,
                       tags |-> tags_json, raw_data |-> item.raw_data,
                       created_at |-> now]})

\* SqlUpdate with created_at among the columns set, to the item's timestamp
SqlUpdateSetsCreatedAt(items, item, tags_json) ==
  {IF row.id = item.id
   THEN [row EXCEPT !.title = item.title, !.url = item.url,
                    !.source = item.source, !.timestamp = item.timestamp,
                    !.tags = tags_json, !.raw_data = item.raw_data,
                    !.created_at = item.timestamp]
   ELSE row : row \in items}

\* UPDATE feed_items SET title, url, source, timestamp, tags, raw_data WHERE id = ?1
SqlUpdate(items, item, tags_json) ==
  {IF row.id = item.id
   THEN [row EXCEPT !.title = item.title, !.url = item.url,
                    !.source = item.source, !.timestamp = item.timestamp,
                    !.tags = tags_json, !.raw_data = item.raw_data]
   ELSE row : row \in items}

\* INSERT INTO fetch_log (...): the row gets the next rowid
SqlInsertLog(log, r, now) ==
  Append(log, [id |-> Len(log) + 1,
               source |-> r.source_name,
               fetched_at |-> now,
               status |-> r.status,
               items_count |-> Len(r.items),
               error_message |-> r.error_message,
               duration_ms |-> r.duration_ms])

\* The fallible operations of one call are numbered in the order the code
\* runs them: per result the fetch_log insert, then per item the tag
\* serialization, the existence lookup and the insert or update; the commit
\* comes last.  `fault` is the number of the operation the environment makes
\* fail (0: none).
FallibleOps(rs) ==
  LET RECURSIVE Count(_)
      Count(k) == IF k > Len(rs) THEN 0 ELSE 1 + 3 * Len(rs[k].items) + Count(k + 1)
  IN  Count(1) + 1

\* a `?` returns the error with its context; `cause` is the error of the
\* statement, "fault" when the environment made the operation fail
Failed(tx, context, cause) ==
  [tx EXCEPT !.failed = TRUE, !.error = Some(<<context, cause>>)]

\* CountInserted with total_items += 1 left to the update branch
CountInsertedNotTotal(tx) == [tx EXCEPT !.new_items = @ + 1]

\* the counters after an insert: new_items += 1; total_items += 1
CountInserted(tx) == [tx EXCEPT !.new_items = @ + 1, !.total_items = @ + 1]

\* CountUpdated with new_items += 1 outside the else branch
CountUpdatedAsNew(tx) == [tx EXCEPT !.new_items = @ + 1, !.total_items = @ + 1]

\* the counters after an update: total_items += 1
CountUpdated(tx) == [tx EXCEPT !.total_items = @ + 1]

\* the body of `for item in &result.items` on the transaction state tx
StoreItem(tx, item, now, fault) ==
  LET tags_json == TagsJson(item.tags)
      \* .unwrap_or(false): a failed lookup counts as "absent"
      exists == IF fault = tx.n + 2 THEN FALSE ELSE SqlExists(tx.items, item.id)
      ins == SqlInsert(tx.items, item, tags_json, now)
  IN  IF fault = tx.n + 1 THEN Failed(tx, "failed to serialize tags", "fault")
      ELSE IF exists
      THEN IF fault = tx.n + 3 THEN Failed(tx, "failed to update item", "fault")
           ELSE CountUpdated([tx EXCEPT !.items = SqlUpdate(tx.items, item, tags_json),
                                        !.n = @ + 3])
      ELSE IF fault = tx.n + 3 THEN Failed(tx, "failed to insert item", "fault")
      ELSE IF ~ins.ok THEN Failed(tx, "failed to insert item", ins.e)
           ELSE CountInserted([tx EXCEPT !.items = ins.v, !.n = @ + 3])

RECURSIVE StoreItems(_, _, _, _)
StoreItems(tx, items, now, fault) ==
  IF tx.failed \/ items = <<>> THEN tx
  ELSE StoreItems(StoreItem(tx, Head(items), now, fault), Tail(items), now, fault)

\* StoreResult with the fetch_log insert made for successful results only
StoreResultLogsSuccessOnly(tx, r, now, fault) ==
  IF fault = tx.n + 1 THEN Failed(tx, "failed to log fetch", "fault")
  ELSE StoreItems([tx EXCEPT !.log = IF r.status = "success"
                                     THEN SqlInsertLog(tx.log, r, now)
                                     ELSE @,
                             !.n = @ + 1],
                  r.items, now, fault)

\* the body of `for result in results`
StoreResult(tx, r, now, fault) ==
  IF fault = tx.n + 1 THEN Failed(tx, "failed to log fetch", "fault")
  ELSE StoreItems([tx EXCEPT !.log = SqlInsertLog(tx.log, r, now), !.n = @ + 1],
                  r.items, now, fault)

RECURSIVE StoreAll(_, _, _, _)
StoreAll(tx, rs, now, fault) ==
  IF tx.failed \/ rs = <<>> THEN tx
  ELSE StoreAll(StoreResult(tx, Head(rs), now, fault), Tail(rs), now, fault)

\* tx.commit()
Commit(tx, fault) ==
  IF fault = tx.n + 1 THEN Failed(tx, "failed to commit transaction", "fault") ELSE tx

\* Rollback of statements that ran in autocommit mode: the writes stay
RollbackKeepsWrites(before, tx) == tx

\* the Transaction is dropped without a successful commit: it rolls back
Rollback(before, tx) == before

\* store_results(conn, results): the tables afterwards and what is returned
store_results(items, log, rs, now, fault) ==
  LET begin == [items |-> items, log |-> log, total_items |-> 0, new_items |-> 0,
                n |-> 0, failed |-> FALSE, error |-> None]
      tx == Commit(StoreAll(begin, rs, now, fault), fault)
      after == IF tx.failed THEN Rollback(begin, tx) ELSE tx
  IN  [ok |-> ~tx.failed,
       error |-> tx.error,
       total_items |-> tx.total_items,
       new_items |-> tx.new_items,
       ops |-> tx.n,
       items |-> after.items,
       log |-> after.log]

(***************************************************************************)
(* The batches store_results is called with: what fetch_all_feeds can      *)
(* return, i.e. in feed order at most one FeedResult per feed (none for a  *)
(* task that panicked), each an error or the normalization of a body.      *)
(***************************************************************************)
ResultsOf(f) ==
  {ErrorResult(f, d, Msg("HTTP", 404)) : d \in 0..MaxDuration}
    \cup {Normalized(f, d, b) : d \in 0..MaxDuration, b \in Bodies}

RECURSIVE BatchesFrom(_)
BatchesFrom(f) ==
  IF f > NumFeeds THEN {<<>>}
  ELSE LET rest == BatchesFrom(f + 1)
       IN  rest \cup {<<r>> \o b : r \in ResultsOf(f), b \in rest}

Batches == BatchesFrom(1)

Times == 1..MaxTime

\* the ASCII codes of the characters of the stored texts
Ascii ==
  "+" :> 43 @@ "." :> 46 @@ "0" :> 48 @@ "1" :> 49 @@ "2" :> 50 @@ "3" :> 51 @@
  "4" :> 52 @@ "5" :> 53 @@ "6" :> 54 @@ "7" :> 55 @@ "8" :> 56 @@ "9" :> 57 @@
  ":" :> 58 @@ "G" :> 71 @@ "H" :> 72 @@ "L" :> 76 @@ "N" :> 78 @@ "R" :> 82 @@
  "a" :> 97 @@ "b" :> 98 @@ "c" :> 99 @@ "d" :> 100 @@ "e" :> 101 @@
  "i" :> 105 @@ "k" :> 107 @@ "o" :> 111 @@ "r" :> 114 @@ "s" :> 115 @@
  "t" :> 116 @@ "u" :> 117 @@ "w" :> 119

\* the order of TEXT values under SQLite's BINARY collation: memcmp of the
\* common prefix, then the shorter text first
RECURSIVE LexLess(_, _)
LexLess(s, t) ==
  IF t = <<>> THEN FALSE
  ELSE IF s = <<>> THEN TRUE
  ELSE IF Head(s) # Head(t) THEN Ascii[Head(s)] < Ascii[Head(t)]
  ELSE LexLess(Tail(s), Tail(t))

\* one call store_results(&conn, &rs) with rs drawn from `batches`; the
\* environment may make one of its operations fail
StoreStep(batches) ==
  /\ \E rs \in batches, clock \in Times :
       \E fault \in 0..FallibleOps(rs) :
         LET now == to_rfc3339(Utc_now(clock))
             r == store_results(feed_items, fetch_log, rs, now, fault)
         IN  /\ feed_items' = r.items
             /\ fetch_log' = r.log
             /\ last_call' =
                  IF r.ok
                  THEN Some([ok |-> TRUE, results |-> rs, now |-> now,
                             total_items |-> r.total_items,
                             new_items |-> r.new_items, ops |-> r.ops,
                             fault |-> fault, error |-> None])
                  ELSE Some([ok |-> FALSE, results |-> <<>>, now |-> <<>>,
                             total_items |-> 0, new_items |-> 0, ops |-> r.ops,
                             fault |-> fault, error |-> r.error])
  /\ calls' = calls + 1

\* a call of store_results by a caller that holds an open connection
StoreCall(batches) ==
  /\ calls < MaxStoreCalls
  /\ StoreStep(batches)
  /\ UNCHANGED <<fetchVars, runVars, connVars, parseVars>>

\* handle_fetch calls store_results on the results of a run
StoreResults == StoreCall(Batches)

(***************************************************************************)
(* store_results is a public function of the library crate and FeedResult  *)
(* has public fields: a caller other than handle_fetch can pass any        *)
(* FeedResult, also one with status Error that carries items.              *)
(***************************************************************************)
\* an Error result that carries the items of a one-element body
ErrorWithItems(f) ==
  FeedResult(FeedName(f), "error", parse_feed(FeedName(f), JArray(<<Item1>>)).v,
             0, Some(Msg("HTTP", 500)))

ApiResultsOf(f) ==
  {ErrorWithItems(f),
   ErrorResult(f, 0, Msg("HTTP", 404)),
   Normalized(f, 0, JArray(<<Item1>>)),
   Normalized(f, 0, JArray(<<Item3>>))}

RECURSIVE ApiBatchesFrom(_)
ApiBatchesFrom(f) ==
  IF f > NumFeeds THEN {<<>>}
  ELSE LET rest == ApiBatchesFrom(f + 1)
       IN  rest \cup {<<r>> \o b : r \in ApiResultsOf(f), b \in rest}

ApiBatches == ApiBatchesFrom(1)

\* a caller of the library calls store_results
StoreResultsApi == StoreCall(ApiBatches)

(***************************************************************************)
(* generate_report.  Its queries are taken to succeed: on a failing query   *)
(* the code reports 0 or no last success.                                   *)
(***************************************************************************)
\* the elements of a set of texts in ascending BINARY order
RECURSIVE OrderBy(_)
OrderBy(S) ==
  IF S = {} THEN <<>>
  ELSE LET least == CHOOSE x \in S : \A y \in S \ {x} : LexLess(x, y)
       IN  <<least>> \o OrderBy(S \ {least})

\* SELECT COUNT(*) FROM feed_items WHERE source = ?1
TotalItems(items, source) == Cardinality({row \in items : row.source = source})

\* SELECT COUNT(*) FROM fetch_log WHERE source = ?1 AND status = 'error'
ErrorCount(log, source) ==
  Cardinality({i \in DOMAIN log : log[i].source = source /\ log[i].status = "error"})

\* LastSuccess with ORDER BY id DESC: the success row inserted last
LastSuccessByRowid(log, source) ==
  LET rows == {i \in DOMAIN log : log[i].source = source /\ log[i].status = "success"}
  IN  IF rows = {} THEN None
      ELSE Some(log[CHOOSE i \in rows : \A j \in rows : j <= i].fetched_at)

\* SELECT fetched_at FROM fetch_log WHERE source = ?1 AND status = 'success'
\* ORDER BY fetched_at DESC LIMIT 1, with .ok()
LastSuccess(log, source) ==
  LET rows == {i \in DOMAIN log : log[i].source = source /\ log[i].status = "success"}
  IN  IF rows = {} THEN None
      ELSE Some(log[CHOOSE i \in rows :
                      \A j \in rows : ~LexLess(log[i].fetched_at, log[j].fetched_at)
                   ].fetched_at)

SourceReport(source_name, total_items, error_count, last_success) ==
  [source_name |-> source_name, total_items |-> total_items,
   error_count |-> error_count, last_success |-> last_success]

\* generate_report with the filter applied to the sources of fetch_log
generate_report_of_logged(items, log, source_filter) ==
  LET logged == OrderBy({log[i].source : i \in DOMAIN log})
      sources == IF source_filter # None
                 THEN SelectSeq(logged, LAMBDA x : x = source_filter[1])
                 ELSE logged
  IN  [k \in DOMAIN sources |->
         SourceReport(sources[k], TotalItems(items, sources[k]),
                      ErrorCount(log, sources[k]), LastSuccess(log, sources[k]))]

\* generate_report(conn, source_filter)
generate_report(items, log, source_filter) ==
  LET sources == IF source_filter # None THEN <<source_filter[1]>>
                 \* SELECT DISTINCT source FROM fetch_log ORDER BY source
                 ELSE OrderBy({log[i].source : i \in DOMAIN log})
  IN  [k \in DOMAIN sources |->
         SourceReport(sources[k], TotalItems(items, sources[k]),
                      ErrorCount(log, sources[k]), LastSuccess(log, sources[k]))]

\* the two connections of two runs that commit at the same time
Conns == 1..2

InitTables ==
  /\ feed_items = {}
  /\ fetch_log = <<>>
  /\ calls = 0
  /\ last_call = None

\* no run of handle_fetch is under way and the database is in place; no
\* connection has begun a transaction; parse_feed is not called
InitStoreIdle ==
  /\ InitTables
  /\ db_file = "database"
  /\ process = "fetching"
  /\ conns = [c \in Conns |-> [pc |-> "idle"]]
  /\ lock = 0
  /\ parse_in = None
  /\ parse_out = None

Init == InitFetch /\ InitStoreIdle

Next ==
  \/ Spawn
  \/ \E t \in Feeds : Acquire(t)
  \/ \E t \in Feeds : BuildClient(t)
  \/ \E t \in Feeds : Backoff(t)
  \/ \E t \in Feeds : Wake(t)
  \/ \E t \in Feeds : Send(t)
  \/ \E t \in Feeds : Normalize(t)
  \/ Join

Spec == Init /\ [][Next]_vars

\* the steps of Next other than the delay computation
NextAwaited ==
  \/ Spawn
  \/ \E t \in Feeds : Acquire(t)
  \/ \E t \in Feeds : BuildClient(t)
  \/ \E t \in Feeds : Wake(t)
  \/ \E t \in Feeds : Send(t)
  \/ \E t \in Feeds : Normalize(t)
  \/ Join

\* The scheduling of the tokio runtime: as long as fetch_all_feeds or one of
\* its tasks can take a step, a step is eventually taken (every HTTP attempt
\* and every sleep completes, a released permit wakes a waiter), and a task
\* at the top of the retry loop goes on to compute its delay: Backoff(t) is
\* enabled exactly when pc[t] = "backoff" and always leaves that position,
\* so the second conjunct is WF_vars(Backoff(t)).  No step can be repeated
\* for ever, attempts being bounded by retry_max, so this is all the
\* fairness that termination needs.
Fairness ==
  /\ WF_vars(NextAwaited)
  /\ \A t \in Feeds : []<>(pc[t] # "backoff")

SpecFair == Spec /\ Fairness


(***************************************************************************)
(* The storage on its own: a sequence of store_results calls on one        *)
(* database, the fetch side at rest.                                       *)
(***************************************************************************)
\* no fetch is under way
InitFetchIdle ==
  /\ settings = [max_concurrency |-> 1, retry_max |-> 0,
                 retry_base_delay_ms |-> Word(DefaultRetryBaseDelay)]
  /\ overflow_checks = FALSE
  /\ spawned = 0
  /\ pc = [t \in Feeds |-> "unspawned"]
  /\ attempt = [t \in Feeds |-> 0]
  /\ last_error = [t \in Feeds |-> NoError]
  /\ tries = [t \in Feeds |-> 0]
  /\ waits = [t \in Feeds |-> 0]
  /\ slept = [t \in Feeds |-> None]
  /\ last_resp = [t \in Feeds |-> None]
  /\ result = [t \in Feeds |-> None]
  /\ permits = 1
  /\ joined = 0
  /\ results = <<>>

InitStore == InitFetchIdle /\ InitStoreIdle

NextStore == StoreResults

SpecStore == InitStore /\ [][NextStore]_vars

NextStoreApi == StoreResultsApi

SpecStoreApi == InitStore /\ [][NextStoreApi]_vars

(***************************************************************************)
(* Two runs commit at the same time, each through its own connection to    *)
(* the same database file.  unchecked_transaction() is BEGIN DEFERRED: it   *)
(* takes no lock.  The first statement of a transaction is the INSERT INTO  *)
(* fetch_log, a write: it takes the write lock of the database, which the   *)
(* connection holds until its COMMIT; a connection that finds the lock      *)
(* taken waits in its busy handler and gets SQLITE_BUSY when the wait runs  *)
(* out.  A transaction sees the committed tables and its own writes.       *)
(***************************************************************************)
\* `let tx = conn.unchecked_transaction()?; let now = Utc::now().to_rfc3339()`
TxBegin(c) ==
  /\ conns[c].pc = "idle"
  /\ \E rs \in ApiBatches, clock \in Times :
       conns' = [conns EXCEPT ![c] =
                   [pc |-> "begun", rs |-> rs, now |-> to_rfc3339(Utc_now(clock)),
                    k |-> 1,
                    tx |-> [items |-> {}, log |-> <<>>, total_items |-> 0,
                            new_items |-> 0, n |-> 0, failed |-> FALSE,
                            error |-> None]]]
  /\ UNCHANGED <<lock, fetchVars, storeVars, runVars, parseVars>>

\* TxFirst taking its snapshot whoever holds the write lock
TxFirstUnlocked(c) ==
  /\ conns[c].pc = "begun"
  /\ conns[c].rs # <<>>
  /\ lock' = c
  /\ conns' = [conns EXCEPT ![c] =
                 [@ EXCEPT !.pc = "writing", !.k = 2,
                           !.tx = StoreResult([@ EXCEPT !.items = feed_items,
                                                        !.log = fetch_log],
                                              conns[c].rs[1], conns[c].now, 0)]]
  /\ UNCHANGED <<fetchVars, storeVars, runVars, parseVars>>

\* the first pass of `for result in results`: its INSERT INTO fetch_log
\* takes the write lock, and the transaction works on the committed tables
TxFirst(c) ==
  /\ conns[c].pc = "begun"
  /\ conns[c].rs # <<>>
  /\ lock = 0
  /\ lock' = c
  /\ conns' = [conns EXCEPT ![c] =
                 [@ EXCEPT !.pc = "writing", !.k = 2,
                           !.tx = StoreResult([@ EXCEPT !.items = feed_items,
                                                        !.log = fetch_log],
                                              conns[c].rs[1], conns[c].now, 0)]]
  /\ UNCHANGED <<fetchVars, storeVars, runVars, parseVars>>

\* the first INSERT finds the write lock taken and the wait runs out: the
\* `?` returns the error and the dropped Transaction rolls back
TxBusy(c) ==
  /\ conns[c].pc = "begun"
  /\ conns[c].rs # <<>>
  /\ lock \notin {0, c}
  /\ conns' = [conns EXCEPT ![c] = [pc |-> "failed", rs |-> @.rs, now |-> @.now]]
  /\ UNCHANGED <<lock, fetchVars, storeVars, runVars, parseVars>>

\* a later pass of `for result in results`
TxResult(c) ==
  /\ conns[c].pc = "writing"
  /\ conns[c].k <= Len(conns[c].rs)
  /\ conns' = [conns EXCEPT ![c] =
                 [@ EXCEPT !.k = @ + 1,
                           !.tx = StoreResult(@, conns[c].rs[conns[c].k],
                                              conns[c].now, 0)]]
  /\ UNCHANGED <<lock, fetchVars, storeVars, runVars, parseVars>>

\* tx.commit() and Ok((total_items, new_items)): the writes of the
\* transaction become the committed tables and the lock is released; a
\* transaction that wrote nothing holds no lock
TxCommit(c) ==
  /\ \/ conns[c].pc = "writing" /\ conns[c].k > Len(conns[c].rs)
     \/ conns[c].pc = "begun" /\ conns[c].rs = <<>>
  /\ IF conns[c].pc = "writing"
     THEN /\ feed_items' = conns[c].tx.items
          /\ fetch_log' = conns[c].tx.log
          /\ lock' = 0
     ELSE UNCHANGED <<feed_items, fetch_log, lock>>
  /\ conns' = [conns EXCEPT ![c] =
                 [pc |-> "done", rs |-> @.rs, now |-> @.now,
                  total_items |-> @.tx.total_items, new_items |-> @.tx.new_items]]
  /\ UNCHANGED <<calls, last_call, fetchVars, runVars, parseVars>>

(***************************************************************************)
(* main.rs: handle_fetch, after load_config.  The fetch steps are those of  *)
(* Next; then the database is opened and the results are committed.        *)
(***************************************************************************)
DbFiles == {"missing", "empty", "database", "garbage"}

\* init_database opening whatever is at the path as a fresh database
init_database_overwrites(file, items, log) ==
  [ok |-> TRUE, file |-> "database",
   items |-> IF file = "database" THEN items ELSE {},
   log |-> IF file = "database" THEN log ELSE <<>>]

\* init_database(db_path): Connection::open creates a missing file and
\* reads nothing; the first CREATE TABLE IF NOT EXISTS reads the file and
\* fails on one that is not a database ("file is not a database"), creates
\* the tables in a fresh (missing or 0-byte) one and keeps existing tables
init_database(file, items, log) ==
  IF file = "garbage"
  THEN [ok |-> FALSE, file |-> file, items |-> items, log |-> log]
  ELSE [ok |-> TRUE, file |-> "database",
        items |-> IF file = "database" THEN items ELSE {},
        log |-> IF file = "database" THEN log ELSE <<>>]

\* OpenStore without waiting for fetch_all_feeds to return
OpenStoreEarly ==
  /\ process = "fetching"
  /\ LET r == init_database(db_file, feed_items, fetch_log)
     IN  /\ db_file' = r.file
         /\ feed_items' = r.items
         /\ fetch_log' = r.log
         /\ process' = IF r.ok THEN "storing" ELSE "failed"
  /\ attempt' = [t \in Feeds |-> 0]
  /\ last_error' = [t \in Feeds |-> NoError]
  /\ tries' = [t \in Feeds |-> 0]
  /\ waits' = [t \in Feeds |-> 0]
  /\ slept' = [t \in Feeds |-> None]
  /\ last_resp' = [t \in Feeds |-> None]
  /\ result' = [t \in Feeds |-> None]
  /\ UNCHANGED <<settings, overflow_checks, spawned, pc, permits, joined, results,
                 calls, last_call, connVars, parseVars>>

\* `let conn = storage::init_database(..)?` once fetch_all_feeds has
\* returned: of the fetch only `results` is left, the tasks and their locals
\* are gone; an Err ends the process (exit code 1)
OpenStore ==
  /\ process = "fetching"
  /\ Returned
  /\ LET r == init_database(db_file, feed_items, fetch_log)
     IN  /\ db_file' = r.file
         /\ feed_items' = r.items
         /\ fetch_log' = r.log
         /\ process' = IF r.ok THEN "storing" ELSE "failed"
  /\ attempt' = [t \in Feeds |-> 0]
  /\ last_error' = [t \in Feeds |-> NoError]
  /\ tries' = [t \in Feeds |-> 0]
  /\ waits' = [t \in Feeds |-> 0]
  /\ slept' = [t \in Feeds |-> None]
  /\ last_resp' = [t \in Feeds |-> None]
  /\ result' = [t \in Feeds |-> None]
  /\ UNCHANGED <<settings, overflow_checks, spawned, pc, permits, joined, results,
                 calls, last_call, connVars, parseVars>>

\* `storage::store_results(&conn, &results)?`, then the summary and Ok(())
CommitRun ==
  /\ process = "storing"
  /\ StoreStep({results})
  /\ process' = IF last_call'[1].ok THEN "exited" ELSE "failed"
  /\ UNCHANGED <<fetchVars, db_file, connVars, parseVars>>

\* SIGINT while handle_fetch runs: no handler is installed, the process is
\* terminated and all it held in memory is gone
Interrupt ==
  /\ process \in {"fetching", "storing"}
  /\ process' = "killed"
  /\ spawned' = 0
  /\ pc' = [t \in Feeds |-> "unspawned"]
  /\ attempt' = [t \in Feeds |-> 0]
  /\ last_error' = [t \in Feeds |-> NoError]
  /\ tries' = [t \in Feeds |-> 0]
  /\ waits' = [t \in Feeds |-> 0]
  /\ slept' = [t \in Feeds |-> None]
  /\ last_resp' = [t \in Feeds |-> None]
  /\ result' = [t \in Feeds |-> None]
  /\ permits' = settings.max_concurrency
  /\ joined' = 0
  /\ results' = <<>>
  /\ UNCHANGED <<settings, overflow_checks, storeVars, db_file, connVars, parseVars>>

InitRun ==
  /\ InitFetch
  /\ InitTables
  /\ db_file \in DbFiles
  /\ process = "fetching"
  /\ conns = [c \in Conns |-> [pc |-> "idle"]]
  /\ lock = 0
  /\ parse_in = None
  /\ parse_out = None

\* config.feeds is fetched as long as handle_fetch awaits fetch_all_feeds
NextRun ==
  \/ process = "fetching" /\ Spawn
  \/ \E t \in Feeds : process = "fetching" /\ Acquire(t)
  \/ \E t \in Feeds : process = "fetching" /\ BuildClient(t)
  \/ \E t \in Feeds : process = "fetching" /\ Backoff(t)
  \/ \E t \in Feeds : process = "fetching" /\ Wake(t)
  \/ \E t \in Feeds : process = "fetching" /\ Send(t)
  \/ \E t \in Feeds : process = "fetching" /\ Normalize(t)
  \/ process = "fetching" /\ Join
  \/ OpenStore
  \/ CommitRun
  \/ Interrupt

SpecRun == InitRun /\ [][NextRun]_vars

NextConc ==
  \/ \E c \in Conns : TxBegin(c)
  \/ \E c \in Conns : TxFirst(c)
  \/ \E c \in Conns : TxBusy(c)
  \/ \E c \in Conns : TxResult(c)
  \/ \E c \in Conns : TxCommit(c)

SpecConc == InitStore /\ [][NextConc]_vars

(***************************************************************************)
(* The normalizer on its own: one parse_feed call on a source name and a   *)
(* body.                                                                   *)
(***************************************************************************)
MaxItems == 3

\* array elements: objects with and without the fields the parsers look
\* for, with values of the right and of other types, and a number
Elements ==
  {[title |-> JStr(<<"t">>), url |-> JStr(<<"c">>),
    created_at |-> JStr(<<"2", "0", "2", "4">>),
    tags |-> JArray(<<JStr(<<"x">>), JNum(1)>>)],
   [title |-> JNum(12345), url |-> JStr(<<"d">>), tags |-> JArray(<<>>)],
   [title |-> JStr(<<"u">>)],
   [title |-> JStr(<<"v">>), comments_url |-> JStr(<<"e">>)],
   [full_name |-> JStr(<<"r">>), html_url |-> JStr(<<"g">>),
    topics |-> JArray(<<JStr(<<"y">>)>>)],
   [name |-> JStr(<<"n">>), html_url |-> JStr(<<"k">>)],
   [full_name |-> JStr(<<"m">>)],
   [html_url |-> JStr(<<"h">>)],
   [data |-> [title |-> JStr(<<"w">>), url |-> JStr(<<"f">>),
              created_utc |-> JNum(5), link_flair_text |-> JStr(<<"z">>)]],
   JNum(7)}

\* the arrays of at most n Elements
RECURSIVE ArraysUpTo(_)
ArraysUpTo(n) ==
  IF n = 0 THEN {<<>>}
  ELSE ArraysUpTo(n - 1)
         \cup {Append(a, e) : a \in {b \in ArraysUpTo(n - 1) : Len(b) = n - 1},
                               e \in Elements}

ParsedBodies ==
  {Malformed, NotArray}
    \cup {JArray(a) : a \in ArraysUpTo(MaxItems)}
    \cup {JObject([items |-> JArray(a)]) : a \in ArraysUpTo(MaxItems)}
    \cup {JObject([data |-> [children |-> JArray(a)]]) : a \in ArraysUpTo(MaxItems)}

InitParse ==
  /\ InitFetchIdle
  /\ InitTables
  /\ db_file = "database"
  /\ process = "fetching"
  /\ conns = [c \in Conns |-> [pc |-> "idle"]]
  /\ lock = 0
  /\ parse_in \in {Some([source_name |-> n, body |-> b]) :
                     n \in {HackerNews, <<"m", "y", " ">> \o HN, GitHub \o <<" ", "T">>,
                           Reddit, Lobsters, <<"a">>},
                     b \in ParsedBodies}
  /\ parse_out = None

\* parse_feed(source_name, &FeedType::Json, body)
Parse ==
  /\ parse_out = None
  /\ parse_out' = Some(parse_feed(parse_in[1].source_name, parse_in[1].body))
  /\ UNCHANGED <<parse_in, fetchVars, storeVars, runVars, connVars>>

SpecParse == InitParse /\ [][Parse]_vars


(***************************************************************************)
(* Properties                                                              *)
(***************************************************************************)
\* the task holds a semaphore permit
HoldsPermit(t) == pc[t] \in {"client", "send", "backoff", "sleeping", "parse"}

Holders == {t \in Feeds : HoldsPermit(t)}

\* C1: at every moment of fetch_all_feeds at most max_concurrency tasks hold
\* a permit (are attempting, waiting in backoff or normalizing).
C1_BoundedConcurrency == Cardinality(Holders) <= settings.max_concurrency

\* every permit is held, one holder waits in backoff, another task is queued
C1_Witness ==
  /\ Cardinality(Holders) = settings.max_concurrency
  /\ \E t \in Feeds : pc[t] = "sleeping"
  /\ \E t \in Feeds : pc[t] = "acquire"

\* C2: when fetch_all_feeds returns, the results hold exactly one FeedResult
\* per configured source, also for a source whose task aborted.
C2_OneResultPerSource ==
  Returned =>
    /\ Len(results) = NumFeeds
    /\ \A f \in Feeds :
         Cardinality({i \in 1..Len(results) : results[i].source_name = FeedName(f)}) = 1

\* the latest attempt of the task got HTTP 404
Got404(t) == last_resp[t] # None /\ last_resp[t][1].status = 404

\* C8: an attempt that receives HTTP 404 ends the fetch as Failed at once,
\* and no attempt is made after a 404.
C8_NotFoundNeverRetried ==
  [][\A t \in Feeds :
       /\ Got404(t) => tries'[t] = tries[t]
       /\ Got404(t)' =>
            /\ pc'[t] = "done"
            /\ result'[t][1].status = "error"
            /\ result'[t][1].error_message = Some(Msg("HTTP", 404))]_vars

\* a first attempt answered 404 with retries configured
C8_Witness ==
  \E t \in Feeds :
    Got404(t) /\ tries[t] = 1 /\ settings.retry_max > 0 /\ pc[t] = "done"

\* the outcomes the loop retries: transport errors, an unreadable body,
\* HTTP 429 and HTTP 5xx
RetryableOutcome(resp) ==
  \/ resp.kind \in TransportErrors
  \/ resp.kind = "http" /\ is_success(resp.status) /\ resp.body = Unreadable
  \/ resp.kind = "http" /\ resp.status = 429
  \/ resp.kind = "http" /\ is_server_error(resp.status)

\* the task's fetch is over: it returned or it aborted
Stopped(t) == pc[t] \in {"done", "panicked"}

\* C9: never more than retry_max + 1 attempts; a fetch whose every attempt
\* ended in a retryable outcome makes exactly retry_max + 1 attempts and
\* then ends Failed.  (A fetch goes on after an attempt only if the attempt
\* was retryable, so all attempts were retryable iff the last one was.)
C9_RetryBudget ==
  \A t \in Feeds :
    /\ tries[t] <= settings.retry_max + 1
    /\ (Stopped(t) /\ last_resp[t] # None /\ RetryableOutcome(last_resp[t][1])) =>
         /\ tries[t] = settings.retry_max + 1
         /\ pc[t] = "done"
         /\ result[t][1].status = "error"

\* the latest attempt of the task got a 2xx status and a readable body
GotBody(t) ==
  /\ last_resp[t] # None
  /\ last_resp[t][1].kind = "http"
  /\ is_success(last_resp[t][1].status)
  /\ last_resp[t][1].body # Unreadable

\* C10: a 2xx response with a readable body ends the retry loop with that
\* body: the body goes to normalization, and no later attempt or backoff
\* wait happens.
C10_SuccessShortCircuits ==
  [][\A t \in Feeds :
       /\ GotBody(t) => tries'[t] = tries[t] /\ waits'[t] = waits[t]
       /\ GotBody(t)' =>
            /\ pc'[t] \in {"parse", "done"}
            /\ pc'[t] = "done" =>
                 \E d \in 0..MaxDuration :
                   result'[t][1] = Normalized(t, d, last_resp'[t][1].body)]_vars

\* a body was read on the second attempt while a retry was still left
C10_Witness ==
  \E t \in Feeds :
    /\ GotBody(t)
    /\ pc[t] = "done"
    /\ tries[t] = 2
    /\ tries[t] < settings.retry_max + 1

(***************************************************************************)
(* Properties of the storage                                               *)
(***************************************************************************)
RECURSIVE AllItems(_)
AllItems(rs) == IF rs = <<>> THEN <<>> ELSE Head(rs).items \o AllItems(Tail(rs))

IdsOf(items) == {items[i].id : i \in DOMAIN items}

RowIds(rows) == {row.id : row \in rows}

\* the sequence of ids of the items of a batch
IdSeq(rs) == [i \in DOMAIN AllItems(rs) |-> AllItems(rs)[i].id]

\* the item of the batch that is processed last among those with this id
LastWithId(items, id) ==
  items[CHOOSE i \in DOMAIN items :
          items[i].id = id /\ \A j \in DOMAIN items : items[j].id = id => j <= i]

\* the row holds the mutable fields of the item
RowReflects(row, item) ==
  /\ row.title = item.title
  /\ row.url = item.url
  /\ row.source = item.source
  /\ row.timestamp = item.timestamp
  /\ row.tags = TagsJson(item.tags)
  /\ row.raw_data = item.raw_data

\* every id of the batch has a row with the fields of its last item
BatchStored(rows, rs) ==
  \A id \in IdsOf(AllItems(rs)) :
    \E row \in rows : row.id = id /\ RowReflects(row, LastWithId(AllItems(rs), id))

\* C3: a store_results call that fails after the transaction began leaves
\* feed_items and fetch_log exactly as they were before the call.
C3_FailedStoreChangesNothing ==
  [][(calls' = calls + 1 /\ ~last_call'[1].ok) =>
       (feed_items' = feed_items /\ fetch_log' = fetch_log)]_vars

\* a call failed after the fetch-log insert and the write of one item at least
C3_Witness == last_call # None /\ ~last_call[1].ok /\ last_call[1].ops >= 4

\* C4: a successful commit reports as new_items the number of distinct ids
\* of the batch not stored before; committing the same batch again reports
\* new_items = 0 and the same total_items, and the rows then hold the
\* values of the second batch.
C4_SecondCommitNothingNew ==
  [][(calls' = calls + 1 /\ last_call'[1].ok) =>
       /\ last_call'[1].new_items =
            Cardinality(IdsOf(AllItems(last_call'[1].results)) \ RowIds(feed_items))
       /\ (/\ last_call # None
           /\ last_call[1].ok
           /\ IdSeq(last_call'[1].results) = IdSeq(last_call[1].results)) =>
            /\ last_call'[1].new_items = 0
            /\ last_call'[1].total_items = last_call[1].total_items
            /\ BatchStored(feed_items', last_call'[1].results)]_vars

\* the second call committed, with nothing new, a batch with the sources and
\* item counts of the batch the first call committed
C4_Witness ==
  /\ calls = 2
  /\ last_call[1].ok
  /\ last_call[1].new_items = 0
  /\ last_call[1].total_items >= 2
  /\ Len(fetch_log) = 2 * Len(last_call[1].results)
  /\ \A i \in DOMAIN last_call[1].results :
       /\ fetch_log[i].source = last_call[1].results[i].source_name
       /\ fetch_log[i].status = "success"
       /\ fetch_log[i].items_count = Len(last_call[1].results[i].items)

\* C5: feed_items holds at most one row per (source, url); committing an
\* item whose (source, url) is stored overwrites the row's title, timestamp,
\* tags and raw payload.
C5_OneRowPerSourceUrl ==
  /\ \A r1, r2 \in feed_items :
       (r1.source = r2.source /\ r1.url = r2.url) => r1 = r2
  /\ (last_call # None /\ last_call[1].ok) =>
       BatchStored(feed_items, last_call[1].results)

\* a row inserted by the first call was given a new title by the second
C5_Witness ==
  /\ calls = 2
  /\ last_call[1].ok
  /\ \E row \in feed_items :
       /\ row.created_at # last_call[1].now
       /\ row.title = <<"u">>
       /\ row.id \in IdsOf(AllItems(last_call[1].results))

\* C6: the bytes fed to the hash differ for any two distinct (source, url)
\* pairs, so two distinct logical items of a batch never get the same id.
C6_UnambiguousIdentity ==
  last_call # None =>
    LET items == AllItems(last_call[1].results)
    IN  \A i, j \in DOMAIN items :
          (items[i].source # items[j].source \/ items[i].url # items[j].url) =>
            /\ HashInput(items[i].source, items[i].url)
                 # HashInput(items[j].source, items[j].url)
            /\ items[i].id # items[j].id

(***************************************************************************)
(* Properties of the retry loop                                            *)
(***************************************************************************)
\* the statuses that end the fetch at once: 4xx other than 429, and the
\* statuses outside 2xx, 4xx and 5xx
FinalStatus(status) ==
  \/ status >= 400 /\ status <= 499 /\ status # 429
  \/ status < 200
  \/ status >= 300 /\ status <= 399
  \/ status >= 600

\* the statuses that are retried: 429 and 5xx
RetriedStatus(status) == status = 429 \/ (status >= 500 /\ status <= 599)

\* the task's latest attempt got an HTTP response with such a status
GotFinalStatus(t) ==
  last_resp[t] # None /\ last_resp[t][1].kind = "http" /\ FinalStatus(last_resp[t][1].status)

GotRetriedStatus(t) ==
  last_resp[t] # None /\ last_resp[t][1].kind = "http" /\ RetriedStatus(last_resp[t][1].status)

\* the step is an HTTP attempt of the task
Attempted(t) == tries'[t] = tries[t] + 1

RECURSIVE IsTimesPowTwo(_, _, _)
IsTimesPowTwo(d, b, e) ==
  IF e = 0 THEN d = b
  ELSE d[1] % 2 = 0 /\ IsTimesPowTwo(Half(d), b, e - 1)

\* C12: the base delay (before jitter) of the wait before the k-th retry is
\* retry_base_delay_ms * 2^(k-1); with base 500 it is 500, 1000, 2000, ...
C12_BackoffDoubles ==
  \A t \in Feeds :
    slept[t] # None =>
      /\ IsTimesPowTwo(slept[t][1].delay, settings.retry_base_delay_ms, waits[t] - 1)
      /\ settings.retry_base_delay_ms = Word(DefaultRetryBaseDelay) =>
           slept[t][1].delay = Word(DefaultRetryBaseDelay * 2 ^ (waits[t] - 1))

\* C13: the delay slept before a retry is the base delay plus a jitter that
\* lies in [0, max(1, delay / 10)], and is never smaller than the base delay.
C13_JitterOnlyAdds ==
  \A t \in Feeds :
    slept[t] # None =>
      LET s == slept[t][1]
          tenth == DivTen(s.delay)
          sum == AddW(s.delay, s.jitter)
      IN  /\ ~sum.ovf
          /\ s.actual = sum.val
          /\ LeqU(s.jitter, IF LessU(tenth, One) THEN One ELSE tenth)
          /\ LeqU(s.delay, s.actual)

\* the description the code gives of what an attempt observed
DescribeAttempt(resp) ==
  IF resp.kind = "timeout" THEN Msg("timeout", 0)
  ELSE IF resp.kind = "connect" THEN Msg("connection failed", 0)
  ELSE IF resp.kind = "other" THEN Msg("network error", 0)
  ELSE IF resp.status >= 200 /\ resp.status <= 299
  THEN Msg("failed to read response body", 0)
  ELSE Msg("HTTP", resp.status)

\* the task's fetch_with_retry returned an error after an attempt
FetchFailed(t) ==
  /\ pc[t] = "done"
  /\ result[t][1].status = "error"
  /\ last_resp[t] # None
  /\ ~GotBody(t)

\* C14 as stated: every fetch that ends Failed, by exhaustion or by a
\* do-not-retry outcome, reports the description of the last attempt
\* annotated with a number of retries.
C14_FailedAlwaysAnnotated ==
  \A t \in Feeds :
    FetchFailed(t) =>
      \E n \in 0..MaxRetry :
        result[t][1].error_message =
          Some(AfterRetries(DescribeAttempt(last_resp[t][1]), n))

\* C14 amended: a fetch that ends Failed on a retryable outcome of the last
\* allowed attempt reports the description of that attempt annotated with
\* retry_max; a fetch that ends Failed on a do-not-retry outcome reports
\* "HTTP <status>" of that attempt without annotation.
C14_AnnotatedOnExhaustionOnly ==
  \A t \in Feeds :
    FetchFailed(t) =>
      result[t][1].error_message =
        IF RetryableOutcome(last_resp[t][1])
        THEN Some(AfterRetries(DescribeAttempt(last_resp[t][1]), settings.retry_max))
        ELSE Some(DescribeAttempt(last_resp[t][1]))

\* one fetch failed on a 403 without annotation, another exhausted two
\* retries on a timeout
C14_Witness ==
  /\ \E t \in Feeds :
        /\ FetchFailed(t)
        /\ last_resp[t][1].status = 403
        /\ result[t][1].error_message[1].after = None
  /\ \E t \in Feeds :
        /\ FetchFailed(t)
        /\ last_resp[t][1].kind = "timeout"
        /\ tries[t] = 3
        /\ result[t][1].error_message[1].after = Some(2)

(***************************************************************************)
(* Properties of fetch_single_feed and of fetch_all_feeds                  *)
(***************************************************************************)
\* C15: once the fetch of a source has produced its outcome, the outcome
\* stays and the source sees no further HTTP attempt, backoff wait or
\* normalization during the same fetch_all_feeds call.
C15_OutcomeIsTerminal ==
  [][\A t \in Feeds :
       result[t] # None =>
         /\ result'[t] = result[t]
         /\ pc'[t] = "done"
         /\ tries'[t] = tries[t]
         /\ waits'[t] = waits[t]
         /\ last_resp'[t] = last_resp[t]]_vars

\* a source failed for good on its first attempt with retries left while
\* the other source is still being fetched, and fetch_all_feeds went on
C15_Witness ==
  \E t, u \in Feeds :
    /\ result[t] # None
    /\ result[t][1].status = "error"
    /\ tries[t] = 1
    /\ settings.retry_max = MaxRetry
    /\ pc[u] = "sleeping"
    /\ tries[u] = 2

\* error_message is present iff status is Error, and an Error carries no items
WellFormed(r) ==
  /\ r.status \in {"success", "error"}
  /\ (r.error_message # None) <=> (r.status = "error")
  /\ r.status = "error" => r.items = <<>>

\* C16: every FeedResult fetch_single_feed produces is well formed, in the
\* task that produced it and in the results fetch_all_feeds collects.
C16_ResultsWellFormed ==
  /\ \A t \in Feeds : result[t] # None => WellFormed(result[t][1])
  /\ \A i \in DOMAIN results : WellFormed(results[i])

\* fetch_all_feeds returned a success with items and an error
C16_Witness ==
  /\ Returned
  /\ \E i \in DOMAIN results :
        results[i].status = "success" /\ results[i].items # <<>>
  /\ \E i \in DOMAIN results :
        results[i].status = "error" /\ results[i].error_message # None

\* the body is not what the normalizer of the source accepts: it is no JSON
\* or no JSON array
Unparsable(body) == body.json \in {"malformed", "object"}

\* C17: when the HTTP fetch of a source succeeds and the normalization of
\* the body fails, the source's outcome is an Error result without items
\* whose error_message starts with "parse error"; the step that produces it
\* changes nothing of the other sources.
C17_ParseFailureIsAnOutcome ==
  [][\A t \in Feeds :
       (pc[t] = "parse" /\ pc'[t] # "parse" /\ Unparsable(last_resp[t][1].body)) =>
         /\ pc'[t] = "done"
         /\ result'[t] # None
         /\ result'[t][1].source_name = FeedName(t)
         /\ result'[t][1].status = "error"
         /\ result'[t][1].items = <<>>
         /\ result'[t][1].error_message # None
         /\ result'[t][1].error_message[1].parse
         /\ \A u \in Feeds \ {t} :
              /\ pc'[u] = pc[u]
              /\ result'[u] = result[u]
              /\ tries'[u] = tries[u]
              /\ last_resp'[u] = last_resp[u]]_vars

\* one source ended with a parse error on a body that is no JSON, the other
\* with a success that has items, and both are in the returned results
C17_Witness ==
  /\ Returned
  /\ Len(results) = NumFeeds
  /\ \E t \in Feeds :
        /\ GotBody(t)
        /\ last_resp[t][1].body = Malformed
        /\ result[t][1].error_message[1].parse
  /\ \E t \in Feeds :
        result[t] # None /\ result[t][1].status = "success" /\ result[t][1].items # <<>>

\* C18: under a fair scheduler, with every attempt and every wait ending,
\* every source eventually has a terminal outcome (Success or Failed) and
\* fetch_all_feeds eventually returns, and it returns only after every
\* spawned task has finished.
C18_EverySourceEndsAndAllReturn ==
  /\ \A t \in Feeds : <>(pc[t] = "done" /\ result[t] # None)
  /\ <>Returned
  /\ [](Returned => \A t \in Feeds : Stopped(t))

(***************************************************************************)
(* Properties of the fetch log and of the items written                    *)
(***************************************************************************)
\* the fetch_log row records the outcome
LogRowOf(row, r) ==
  /\ row.source = r.source_name
  /\ row.status = r.status
  /\ row.status \in {"success", "error"}
  /\ row.items_count = Len(r.items)
  /\ row.error_message = r.error_message
  /\ row.duration_ms = r.duration_ms

\* C19: a successful store_results call appends exactly one fetch_log row
\* per outcome of the batch, successful or failed, in batch order, carrying
\* the outcome's source name, status, item count, error message and
\* duration; no call modifies or removes an existing fetch_log row.
C19_OneLogRowPerOutcome ==
  [][/\ Len(fetch_log') >= Len(fetch_log)
     /\ SubSeq(fetch_log', 1, Len(fetch_log)) = fetch_log
     /\ (calls' = calls + 1 /\ last_call'[1].ok) =>
          LET rs == last_call'[1].results
          IN  /\ Len(fetch_log') = Len(fetch_log) + Len(rs)
              /\ \A i \in DOMAIN rs :
                   LogRowOf(fetch_log'[Len(fetch_log) + i], rs[i])]_vars

\* the second call logged a failed and a successful outcome after the rows
\* of the first call
C19_Witness ==
  /\ calls = 2
  /\ last_call[1].ok
  /\ Len(last_call[1].results) = 2
  /\ Len(fetch_log) = 4
  /\ fetch_log[3].status = "error"
  /\ fetch_log[3].error_message # None
  /\ fetch_log[3].items_count = 0
  /\ fetch_log[4].status = "success"
  /\ fetch_log[4].error_message = None
  /\ fetch_log[4].items_count = 2

\* the items of the outcomes of the batch whose status is Success
RECURSIVE SuccessItems(_)
SuccessItems(rs) ==
  IF rs = <<>> THEN <<>>
  ELSE (IF Head(rs).status = "success" THEN Head(rs).items ELSE <<>>)
         \o SuccessItems(Tail(rs))

Ledger(f) == generate_report(feed_items, fetch_log, Some(FeedName(f)))[1]

\* the instant a stored timestamp text was printed from
InstantOf(text) ==
  Instants[CHOOSE c \in DOMAIN Instants : to_rfc3339(Instants[c]) = text]

\* instant a is before instant b
Earlier(a, b) == a.secs < b.secs \/ (a.secs = b.secs /\ a.nanos < b.nanos)

\* the results of the source of feed f with the given status in the batch
\* the last call committed
Committed(f, status) ==
  {k \in DOMAIN last_call'[1].results :
     /\ last_call'[1].results[k].source_name = FeedName(f)
     /\ last_call'[1].results[k].status = status}

ItemsIn(f, rs) ==
  LET RECURSIVE Cat(_)
      Cat(k) == IF k > Len(rs) THEN <<>>
                ELSE (IF rs[k].source_name = FeedName(f) THEN rs[k].items ELSE <<>>)
                       \o Cat(k + 1)
  IN  Cat(1)

\* C22: the item count generate_report shows of a source is not a sum over
\* its runs: a commit of the same items of the source as the commit before
\* it leaves the count as it was
C22_RepeatedItemsCountOnce ==
  [][(/\ last_call # None /\ last_call[1].ok
      /\ last_call' # None /\ last_call'[1].ok
      /\ calls' = calls + 1)
     => \A f \in Feeds :
          ItemsIn(f, last_call[1].results) = ItemsIn(f, last_call'[1].results)
            => Ledger(f)'.total_items = Ledger(f).total_items]_vars

\* the source of feed f has an entry in the report of all sources
Listed(f) ==
  \E k \in DOMAIN generate_report(feed_items, fetch_log, None) :
    generate_report(feed_items, fetch_log, None)[k].source_name = FeedName(f)

\* C23: no step makes the entry of a source disappear from the report, its
\* item count or its error count decrease, or its last success become
\* absent or earlier
C23_LedgerMonotonic ==
  [][\A f \in Feeds :
       /\ Listed(f) => Listed(f)'
       /\ Ledger(f)'.total_items >= Ledger(f).total_items
       /\ Ledger(f)'.error_count >= Ledger(f).error_count
       /\ Ledger(f).last_success # None =>
            /\ Ledger(f)'.last_success # None
            /\ ~Earlier(InstantOf(Ledger(f)'.last_success[1]),
                        InstantOf(Ledger(f).last_success[1]))]_vars

(***************************************************************************)
(* Properties of a run of handle_fetch                                     *)
(***************************************************************************)
\* the fetch_log rows of the source of feed f
LogRowsOf(f) == {i \in DOMAIN fetch_log : fetch_log[i].source = FeedName(f)}

\* C24: a run that ends normally has committed one fetch_log row for every
\* configured source and the items of every successful source, whatever
\* sources failed, and reports as new the items it inserted; a run that
\* aborts does so because init_database or store_results failed, and has
\* committed nothing
C24_PartialFailureStillCommits ==
  /\ process = "exited" =>
       /\ \A f \in Feeds : Cardinality(LogRowsOf(f)) = 1
       /\ \A k \in DOMAIN results :
            results[k].status = "success" =>
              \A i \in DOMAIN results[k].items :
                results[k].items[i].id \in RowIds(feed_items)
       /\ last_call[1].new_items = Cardinality(IdsOf(AllItems(results)))
  /\ process = "failed" =>
       /\ feed_items = {} /\ fetch_log = <<>>
       /\ db_file = "garbage" \/ (last_call # None /\ ~last_call[1].ok)

\* the task of feed t has not yet produced its FeedResult
Pending(t) == pc[t] \in {"acquire", "client", "send", "backoff", "sleeping", "parse"}

\* C25: when the run is cancelled while some source is still attempting or
\* waiting, the outcome of every source that had reached Success or Failed
\* is committed, and no row is written for the others
C25_CancelKeepsFinishedOutcomes ==
  [][(/\ process = "fetching"
      /\ process' = "killed"
      /\ \E t \in Feeds : Pending(t))
     => \A t \in Feeds :
          IF result[t] # None
          THEN \E i \in DOMAIN fetch_log' :
                 /\ fetch_log'[i].source = FeedName(t)
                 /\ fetch_log'[i].status = result[t][1].status
          ELSE \A i \in DOMAIN fetch_log' : fetch_log'[i].source # FeedName(t)]_vars

C28_GarbageRejectedFreshAccepted ==
  [][/\ (process = "fetching" /\ process' \in {"storing", "failed"}) =>
          /\ db_file = "garbage" =>
               /\ process' = "failed"
               /\ UNCHANGED <<db_file, feed_items, fetch_log>>
          /\ db_file \in {"missing", "empty"} =>
               /\ process' = "storing"
               /\ db_file' = "database"
               /\ feed_items' = {} /\ fetch_log' = <<>>
     /\ db_file = "garbage" => calls' = 0]_vars

\* a run whose sources were fetched has ended at init_database on a file
\* that is not a database
C28_Witness ==
  /\ process = "failed"
  /\ db_file = "garbage"
  /\ Returned
  /\ results # <<>>
  /\ calls = 0

(***************************************************************************)
(* Properties of concurrent commits                                        *)
(***************************************************************************)
\* what the two calls leave and return when call a runs first and to its
\* end, then call b, on the empty tables the two started from
Serial(a, b) ==
  LET first == store_results({}, <<>>, conns[a].rs, conns[a].now, 0)
      second == store_results(first.items, first.log, conns[b].rs, conns[b].now, 0)
  IN  /\ feed_items = second.items
      /\ fetch_log = second.log
      /\ conns[a].total_items = first.total_items
      /\ conns[a].new_items = first.new_items
      /\ conns[b].total_items = second.total_items
      /\ conns[b].new_items = second.new_items

\* what call a alone leaves and returns
Alone(a) ==
  LET only == store_results({}, <<>>, conns[a].rs, conns[a].now, 0)
  IN  /\ feed_items = only.items
      /\ fetch_log = only.log
      /\ conns[a].total_items = only.total_items
      /\ conns[a].new_items = only.new_items

ItemsOfBody(source_name, body) ==
  IF Contains(source_name, GitHub)
  THEN IF body.json = "object" /\ "fields" \in DOMAIN body
          /\ "items" \in DOMAIN body.fields
       THEN Some(body.fields.items.items) ELSE None
  ELSE IF body.json = "array" THEN Some(body.items) ELSE None

\* the item has a member with one of the keys
HasKey(item, keys) == \E k \in keys : k \in DOMAIN item

\* the item has a string member with one of the keys
HasString(item, keys) ==
  \E k \in keys : k \in DOMAIN item /\ "t" \in DOMAIN item[k] /\ item[k].t = "str"

TitleKeys(source_name) ==
  IF Contains(source_name, GitHub) THEN {"full_name", "name"} ELSE {"title"}

UrlKeys(source_name) ==
  IF Contains(source_name, GitHub) THEN {"html_url"} ELSE {"url", "comments_url"}

\* C29: an item of a Lobsters body that has a URL and whose title is a
\* number is kept, with the decimal text of the number as its title
C29_NonStringTitleCoerced ==
  (/\ parse_out # None
   /\ Contains(parse_in[1].source_name, Lobsters)
   /\ parse_in[1].body.json = "array")
  => \A i \in DOMAIN parse_in[1].body.items :
       LET item == parse_in[1].body.items[i]
       IN  (/\ HasString(item, {"url"})
            /\ "title" \in DOMAIN item
            /\ item.title.t = "num")
           => /\ parse_out[1].ok
              /\ \E k \in DOMAIN parse_out[1].v :
                   /\ parse_out[1].v[k].raw_data = Some(item)
                   /\ parse_out[1].v[k].title = Decimal(item.title.n)

Admitted(t) == pc[t] \notin {"unspawned", "acquire"}

\* the tasks that were given a slot and have not produced their FeedResult
Unfinished == {t \in Feeds : Admitted(t) /\ result[t] = None}

\* C31: a task holds its permit from before its first attempt until its
\* FeedResult is produced, backoff waits and normalization included, and a
\* slot goes to another source only after its holder reached a terminal
\* outcome: the sources admitted and still without an outcome never exceed
\* max_concurrency.
C31_PermitHeldUntilOutcome ==
  /\ \A t \in Feeds : (Admitted(t) /\ result[t] = None) => HoldsPermit(t)
  /\ \A t \in Feeds : pc[t] \in {"backoff", "sleeping", "parse"} => HoldsPermit(t)
  /\ Cardinality(Unfinished) <= settings.max_concurrency

\* C32: the permits are conserved: in every state of fetch_all_feeds the
\* free permits and the permits held by running tasks add up to
\* max_concurrency, a task that has ended (with a Success, with a Failed or
\* by a panic) holds none, and when fetch_all_feeds returns every permit is
\* free.
C32_PermitsConserved ==
  /\ permits >= 0
  /\ permits + Cardinality(Holders) = settings.max_concurrency
  /\ \A t \in Feeds : Stopped(t) => ~HoldsPermit(t)
  /\ Returned => permits = settings.max_concurrency

\* fetch_all_feeds returned after one task panicked and the other ended with
\* an outcome, with a single permit configured
C32_Witness ==
  /\ Returned
  /\ settings.max_concurrency = 1
  /\ permits = 1
  /\ \E t, u \in Feeds : pc[t] = "panicked" /\ pc[u] = "done"

(***************************************************************************)
(* Properties of the counters and of the rows of store_results             *)
(***************************************************************************)
\* the number, among the fallible operations of a call on rs, of the
\* existence lookup of the k-th item of the j-th result
LookupOp(rs, j, k) == FallibleOps(SubSeq(rs, 1, j - 1)) + 3 * (k - 1) + 2

\* the ids of the items of rs processed before the k-th item of the j-th result
EarlierIds(rs, j, k) ==
  IdsOf(AllItems(SubSeq(rs, 1, j - 1))) \cup {rs[j].items[i].id : i \in 1..(k - 1)}

\* the error of an INSERT INTO feed_items that hit the primary key
InsertHitKey == Some(<<"failed to insert item", "UNIQUE constraint failed: feed_items.id">>)

\* C33: an item is counted in new_items only if no row with its id existed
\* just before it was processed.  A successful call whose existence lookup
\* failed on an item found no row with that id (stored, or written earlier
\* in the batch), and counts no more new items than ids absent before the
\* call; a lookup that fails while the row exists makes the insert fail on
\* the primary key, and the call then fails and leaves both tables as they
\* were.
C33_StoredItemNeverCountedNew ==
  [][/\ (calls' = calls + 1 /\ last_call'[1].ok) =>
          LET c == last_call'[1]
              rs == c.results
          IN  /\ \A j \in DOMAIN rs : \A k \in DOMAIN rs[j].items :
                   c.fault = LookupOp(rs, j, k) =>
                     rs[j].items[k].id \notin RowIds(feed_items) \cup EarlierIds(rs, j, k)
              /\ c.new_items <=
                   Cardinality(IdsOf(AllItems(rs)) \ RowIds(feed_items))
     /\ (calls' = calls + 1 /\ last_call'[1].error = InsertHitKey) =>
          /\ ~last_call'[1].ok
          /\ last_call'[1].fault # 0
          /\ feed_items' = feed_items
          /\ fetch_log' = fetch_log]_vars

\* the second call looked up an item that the first call stored, the lookup
\* failed, and the insert hit the primary key
C33_Witness ==
  /\ calls = 2
  /\ feed_items # {}
  /\ last_call[1].error = InsertHitKey

\* C34: a successful store_results call returns as total_items the number
\* of items of all the outcomes of the batch, an id counted each time it
\* occurs, and as new_items the number of distinct ids of the batch that
\* feed_items did not hold before the call: an id that occurs several times
\* is inserted once and updated afterwards.  new_items <= total_items.
C34_CountersOfACommit ==
  [][(calls' = calls + 1 /\ last_call'[1].ok) =>
       LET c == last_call'[1]
           all == AllItems(c.results)
       IN  /\ c.total_items = Len(all)
           /\ c.new_items = Cardinality(IdsOf(all) \ RowIds(feed_items))
           /\ c.new_items <= c.total_items
           /\ RowIds(feed_items') = RowIds(feed_items) \cup IdsOf(all)
           /\ Cardinality(feed_items') = Cardinality(feed_items) + c.new_items
           /\ BatchStored(feed_items', c.results)]_vars

\* a call committed more items than it reported new: one id was in the
\* table before, another came twice in the batch
C34_Witness ==
  /\ calls = 2
  /\ last_call[1].ok
  /\ last_call[1].total_items = 3
  /\ last_call[1].new_items = 1
  /\ Cardinality(feed_items) = 2

\* the (id, created_at) pairs of a set of rows
Created(rows) == {<<row.id, row.created_at>> : row \in rows}

\* C35: an update leaves the id and the created_at of the row as they are:
\* no step removes a row or changes its created_at, a row appears only in a
\* successful call and carries that call's timestamp as created_at, and
\* there is one row per id; so created_at of every row is the timestamp of
\* the commit that first inserted its id.
C35_CreatedAtIsFirstInsert ==
  [][/\ Created(feed_items) \subseteq Created(feed_items')
     /\ Cardinality(RowIds(feed_items')) = Cardinality(feed_items')
     /\ Created(feed_items') # Created(feed_items) =>
          /\ calls' = calls + 1
          /\ last_call'[1].ok
          /\ Created(feed_items') \ Created(feed_items) =
               {<<id, last_call'[1].now>> :
                  id \in IdsOf(AllItems(last_call'[1].results)) \ RowIds(feed_items)}]_vars

\* the second call, whose clock read an earlier time than the first call's,
\* gave a new title to a row that the first call had inserted
C35_Witness ==
  /\ calls = 2
  /\ last_call[1].ok
  /\ \E row \in feed_items :
       /\ row.id \in IdsOf(AllItems(last_call[1].results))
       /\ LexLess(last_call[1].now, row.created_at)
       /\ row.title = <<"u">>

(***************************************************************************)
(* Properties of the waits and of the order of the results                 *)
(***************************************************************************)
\* C36: backoff waits occur only between attempts.  A wait starts only
\* after an attempt, the k-th after exactly k attempts; when it ends the
\* next thing the task does is attempt k + 1; and a fetch that has ended
\* after n >= 1 attempts has made exactly n - 1 waits, so that none follows
\* the last attempt and none precedes the first.
C36_WaitsOnlyBetweenAttempts ==
  [][\A t \in Feeds :
       /\ (waits'[t] # waits[t]) =>
            /\ waits'[t] = waits[t] + 1
            /\ tries[t] = waits'[t]
            /\ pc'[t] = "sleeping"
       /\ (pc[t] = "sleeping" /\ pc'[t] # "sleeping") =>
            /\ pc'[t] = "send"
            /\ tries'[t] = tries[t]
       /\ (pc[t] = "send" /\ pc'[t] # "send") =>
            /\ tries'[t] = tries[t] + 1
            /\ tries'[t] = waits'[t] + 1
       /\ (tries'[t] = 0) => waits'[t] = 0
       /\ (Stopped(t)' /\ tries'[t] > 0) => waits'[t] = tries'[t] - 1]_vars

\* a fetch ended Failed on its third attempt, after two waits
C36_Witness ==
  \E t \in Feeds :
    /\ pc[t] = "done"
    /\ result[t][1].status = "error"
    /\ tries[t] = 3
    /\ waits[t] = 2

\* C37: for settings that validate_settings accepts, in every attempt
\* 1..=retry_max the delay retry_base_delay_ms * 2^(attempt-1) and its sum
\* with the jitter stay within u64, the delay read as an i64 is not
\* negative, and the delay slept is not smaller than the delay computed;
\* no task panics.
C37_BackoffFitsItsTypes ==
  validate_settings(settings) =>
    \A t \in Feeds :
      /\ pc[t] # "panicked"
      /\ pc[t] = "backoff" =>
           LET b == BackoffDelay(settings.retry_base_delay_ms, attempt[t])
           IN  /\ ~b.ovf
               /\ ~Negative(b.delay)
               /\ \A jitter \in Jitters(JitterRange(b.delay)) :
                    LET a == ActualDelay(b.delay, jitter)
                    IN  ~a.ovf /\ LeqU(b.delay, a.val)

\* the position in config.feeds of the source of a result
FeedOf(r) == CHOOSE f \in Feeds : FeedName(f) = r.source_name

\* C38: the results fetch_all_feeds collects are in the order of the
\* sources in the configuration, whatever the order in which the tasks
\* ended: each is the result of its source's task, the positions of their
\* sources increase, and only the sources of panicked tasks are left out.
C38_ResultsInConfigOrder ==
  /\ \A i \in DOMAIN results :
       /\ results[i].source_name \in {FeedName(f) : f \in Feeds}
       /\ FeedOf(results[i]) <= joined
       /\ results[i] = result[FeedOf(results[i])][1]
  /\ \A i, j \in DOMAIN results : i < j => FeedOf(results[i]) < FeedOf(results[j])
  /\ \A f \in 1..joined :
       pc[f] = "done" => \E i \in DOMAIN results : FeedOf(results[i]) = f

\* fetch_all_feeds returned both results, the first source's fetch having
\* made three attempts and the second one
C38_Witness ==
  /\ Returned
  /\ Len(results) = NumFeeds
  /\ tries[1] = 3
  /\ tries[NumFeeds] = 1
  /\ results[1].source_name = FeedName(1)

(***************************************************************************)
(* Properties of generate_report                                           *)
(***************************************************************************)
\* the source names of fetch_log
Logged == {fetch_log[i].source : i \in DOMAIN fetch_log}

\* the names a report is asked for: the configured sources and others
Asked == {FeedNames[i] : i \in DOMAIN FeedNames}

\* C39: without a filter generate_report returns exactly one entry per
\* distinct source name of fetch_log, in ascending order of the names, each
\* the entry the filter on that name gives; with a filter it returns
\* exactly one entry, for the name given, and for a name with no fetch_log
\* row and no item that entry has total_items 0, error_count 0 and no
\* last_success.
C39_ReportEntries ==
  LET all == generate_report(feed_items, fetch_log, None)
  IN  /\ {all[k].source_name : k \in DOMAIN all} = Logged
      /\ Len(all) = Cardinality(Logged)
      /\ \A k, l \in DOMAIN all :
           k < l => LexLess(all[k].source_name, all[l].source_name)
      /\ \A k \in DOMAIN all :
           <<all[k]>> = generate_report(feed_items, fetch_log, Some(all[k].source_name))
      /\ \A name \in Asked :
           LET one == generate_report(feed_items, fetch_log, Some(name))
           IN  /\ Len(one) = 1
               /\ one[1].source_name = name
               /\ (name \notin Logged /\ \A row \in feed_items : row.source # name) =>
                    /\ one[1].total_items = 0
                    /\ one[1].error_count = 0
                    /\ one[1].last_success = None

\* fetch_log holds three rows of two sources, the greater name logged
\* first, and a third name is asked for that has no row and no item
C39_Witness ==
  /\ Len(fetch_log) = 3
  /\ fetch_log[1].source = FeedName(2)
  /\ fetch_log[2].source = FeedName(1)
  /\ Len(generate_report(feed_items, fetch_log, None)) = 2
  /\ generate_report(feed_items, fetch_log, None)[1].source_name = FeedName(1)
  /\ feed_items # {}
  /\ generate_report(feed_items, fetch_log, Some(FeedNames[4])) =
       <<SourceReport(FeedNames[4], 0, 0, None)>>
====
